---------------------------- MODULE Spec2Model ----------------------------
(***************************************************************************)
(* A model of the AAC pageset format adapters: the Grid3 gridset adapter   *)
(* (src/gridset_processor.py) and the OPML outline adapter                 *)
(* (src/opml_processor.py).                                                *)
(*                                                                         *)
(* Strings are sequences of tokens.  A token is a TLA+ string standing for *)
(* a run of characters without whitespace ("a", "fr", "/", "."), or the    *)
(* single whitespace character " ".  An XML text that lxml reports as None *)
(* (an element without text) is the empty sequence: every test the code    *)
(* makes on a parsed text treats None and "" alike.                        *)
(*                                                                         *)
(* The specifications share the variables, one per group of operations:    *)
(*   SpecLang      _map_language_code                                      *)
(*   SpecRuns      _extract_text_and_metadata_from_element and             *)
(*                 _update_element_with_translation                        *)
(*   SpecFiles     GridsetProcessor.process_files                          *)
(*   SpecTree      load_into_tree, save_from_tree, extract_texts           *)
(*   SpecOpml      OPMLProcessor.load_into_tree and save_from_tree         *)
(*   SpecOpmlFiles OPMLProcessor.process_files                             *)
(*   SpecApply     process_files of either adapter                         *)
(*   SpecCreate    GridsetProcessor.create_translated_file                 *)
(* A specification leaves the variables of the other groups at rest.       *)
(***************************************************************************)
EXTENDS Integers, Sequences, FiniteSets, TLC

VARIABLES
    \* _map_language_code: the argument, the result, whether it has run
    lang_code, grid3_lang, langDone,
    \* one text field (a Parameter[@Key='text'] element): its style-groups;
    \* the results of the last extraction; the argument and the tokens of the
    \* last reinjection; which of the two ran last; the children of the
    \* element (its <p> paragraphs), each with the number of style-groups it
    \* holds and whether it was there before the last reinjection
    element, full_text, metadata, original_parts, translated_text, words, runPc,
    field_children,
    \* process_files: the extracted gridset directory on disk; the argument,
    \* the result and the rewritten files of the last call; the processor's
    \* collected_texts; the containers written so far; the number of calls
    dir, translations, ret, rewritten, collected_texts, containers, pfCalls,
    \* load_into_tree, save_from_tree, extract_texts: the gridset file read;
    \* the tree loaded from it; the gridset file save_from_tree wrote; the
    \* tree loaded from that; the results of extract_texts without and with
    \* context; the operation that ran last
    gridset, tree, saved, tree2, texts, texts_with_context, treePc,
    \* OPMLProcessor: the outline file read; the tree loaded from it (or
    \* edited by hand); the outline file save_from_tree wrote; how the last
    \* call ended; the operation that ran last; the directory
    \* OPMLProcessor.process_files is given
    opml, otree, osaved, oresult, opmlPc, odir,
    \* create_translated_file: how the last call ended
    ctfResult

langVars == <<lang_code, grid3_lang, langDone>>

runVars == <<element, full_text, metadata, original_parts, translated_text,
             words, runPc, field_children>>

fileVars == <<dir, translations, ret, rewritten, collected_texts, containers,
              pfCalls>>

vars == <<lang_code, grid3_lang, langDone,
          element, full_text, metadata, original_parts, translated_text,
          words, runPc, field_children,
          dir, translations, ret, rewritten, collected_texts, containers,
          pfCalls,
          gridset, tree, saved, tree2, texts, texts_with_context, treePc,
          opml, otree, osaved, oresult, opmlPc, odir,
          ctfResult>>

opmlVars == <<opml, otree, osaved, oresult, opmlPc, odir>>

createVars == <<ctfResult>>

treeVars == <<gridset, tree, saved, tree2, texts, texts_with_context, treePc>>

\* the variables of a group no operation of the specification touches
NoCode == <<"?">>

LangAtRest == lang_code = NoCode /\ grid3_lang = NoCode /\ langDone = FALSE

RunsAtRest ==
    /\ element = <<>> /\ full_text = <<>> /\ metadata = <<>>
    /\ original_parts = <<>> /\ translated_text = <<>> /\ words = <<>>
    /\ runPc = "rest" /\ field_children = <<>>

FilesAtRest ==
    /\ dir = <<>> /\ translations = <<>> /\ ret = <<>> /\ rewritten = {}
    /\ collected_texts = <<>> /\ containers = <<>> /\ pfCalls = 0

TreeAtRest ==
    /\ gridset = <<>> /\ tree = <<>> /\ saved = <<>> /\ tree2 = <<>>
    /\ texts = <<>> /\ texts_with_context = <<>> /\ treePc = "rest"

OpmlAtRest ==
    /\ opml = <<>> /\ otree = <<>> /\ osaved = <<>>
    /\ oresult = "rest" /\ opmlPc = "rest" /\ odir = <<>>

CreateAtRest == ctfResult = "rest"

---------------------------------------------------------------------------
(* Strings *)

SP == " "
TAB == "\t"

\* str.isspace() of a one-character string
isspace(ch) == ch \in {SP, TAB}

RECURSIVE lstrip(_)
lstrip(s) == IF s /= <<>> /\ isspace(Head(s)) THEN lstrip(Tail(s)) ELSE s

RECURSIVE rstrip(_)
rstrip(s) ==
    IF s /= <<>> /\ isspace(s[Len(s)]) THEN rstrip(SubSeq(s, 1, Len(s) - 1)) ELSE s

\* str.strip()
strip(s) == rstrip(lstrip(s))

\* str.isspace() of a string: not empty and whitespace only
str_isspace(s) == s /= <<>> /\ \A i \in 1..Len(s) : isspace(s[i])

\* the elements of a sequence, as a set
Range(s) == {s[i] : i \in 1..Len(s)}

\* the sequences over S of length at most n
SeqsUpTo(S, n) == UNION {[1..k -> S] : k \in 0..n}

\* the orders in which a finite set can be visited (os.listdir, set iteration)
Orders(S) == {o \in [1..Cardinality(S) -> S] : Range(o) = S}

---------------------------------------------------------------------------
(* _map_language_code *)

\* "ll" and "ll-RR"
Short(l) == <<l>>
Region(l, r) == <<l, "-", r>>

rtl_languages == {Short("ar"), Short("fa"), Short("ur"), Short("yi"),
                  Short("dv"), Short("ha"), Short("ps")}

\* the literal table of _map_language_code, as (key, value) pairs
language_map ==
    { <<Short("af"), Region("af", "ZA")>>, <<Short("ar"), Region("ar", "SA")>>,
      <<Short("eu"), Region("eu", "ES")>>, <<Short("ca"), Region("ca", "ES")>>,
      <<Short("hr"), Region("hr", "HR")>>, <<Short("cs"), Region("cs", "CZ")>>,
      <<Short("da"), Region("da", "DK")>>, <<Short("nl"), Region("nl", "NL")>>,
      <<Short("en"), Region("en", "GB")>>, <<Short("fo"), Region("fo", "FO")>>,
      <<Short("fi"), Region("fi", "FI")>>, <<Short("fr"), Region("fr", "FR")>>,
      <<Short("de"), Region("de", "DE")>>, <<Short("el"), Region("el", "GR")>>,
      <<Short("he"), Region("he", "IL")>>, <<Short("it"), Region("it", "IT")>>,
      <<Short("nb"), Region("nb", "NO")>>, <<Short("no"), Region("nb", "NO")>>,
      <<Short("pl"), Region("pl", "PL")>>, <<Short("pt"), Region("pt", "PT")>>,
      <<Short("ru"), Region("ru", "RU")>>, <<Short("sk"), Region("sk", "SK")>>,
      <<Short("sl"), Region("sl", "SI")>>, <<Short("es"), Region("es", "ES")>>,
      <<Short("sv"), Region("sv", "SE")>>, <<Short("uk"), Region("uk", "UA")>>,
      <<Short("cy"), Region("cy", "GB")>>, <<Short("zh"), Region("zh", "CN")>>,
      <<Short("ja"), Region("ja", "JP")>>, <<Short("ko"), Region("ko", "KR")>> }
    \cup
    { <<Region(p[1], p[2]), Region(p[1], p[2])>> : p \in
        { <<"af", "ZA">>, <<"ar", "SA">>, <<"eu", "ES">>, <<"ca", "ES">>,
          <<"hr", "HR">>, <<"cs", "CZ">>, <<"da", "DK">>, <<"nl", "BE">>,
          <<"nl", "NL">>, <<"en", "AU">>, <<"en", "CA">>, <<"en", "NZ">>,
          <<"en", "ZA">>, <<"en", "GB">>, <<"en", "US">>, <<"fo", "FO">>,
          <<"fi", "FI">>, <<"fr", "CA">>, <<"fr", "FR">>, <<"de", "AT">>,
          <<"de", "DE">>, <<"el", "GR">>, <<"he", "IL">>, <<"it", "IT">>,
          <<"nb", "NO">>, <<"pl", "PL">>, <<"pt", "BR">>, <<"pt", "PT">>,
          <<"ru", "RU">>, <<"sk", "SK">>, <<"sl", "SI">>, <<"es", "ES">>,
          <<"es", "US">>, <<"sv", "SE">>, <<"uk", "UA">>, <<"cy", "GB">>,
          <<"zh", "CN">>, <<"ja", "JP">>, <<"ko", "KR">> } }

language_map_keys == {e[1] : e \in language_map}

\* dict.get(key, default)
language_map_get(key, default) ==
    IF key \in language_map_keys
    THEN (CHOOSE e \in language_map : e[1] = key)[2]
    ELSE default

\* the mutant of C10: the right-to-left default is dropped
map_language_code_no_rtl(code) == language_map_get(code, code)

map_language_code(code) ==
    IF code \in rtl_languages /\ code /= Short("ar") /\ code /= Short("he")
    THEN Region("ar", "SA")
    ELSE language_map_get(code, code)

\* codes the table does not know: right-to-left ones, and others
UnknownCodes == {Short("xx"), Short("tlh"), Region("en", "IE"), <<>>,
                 <<"EN">>, <<"fr", "_", "FR">>}

LangCodes == language_map_keys \cup rtl_languages \cup UnknownCodes

---------------------------------------------------------------------------
(* Text fields: _extract_text_and_metadata_from_element and                *)
(* _update_element_with_translation.  A field is the sequence of its <s>   *)
(* style-groups in document order; a style-group is its attributes (a set  *)
(* of <<name, value>> pairs) and the texts of its <r> runs, <<>> for a run *)
(* without text.                                                           *)

SGroup(attrib, runs) == [attrib |-> attrib, runs |-> runs]

\* one (text, is_space) tuple of text_parts, for a run with text
text_part(rtext) ==
    IF str_isspace(rtext) THEN <<<<>>, TRUE>> ELSE <<strip(rtext), FALSE>>

\* the tuples of the runs of one style-group (a run with text None adds none)
RECURSIVE group_parts(_)
group_parts(runs) ==
    IF runs = <<>> THEN <<>>
    ELSE (IF Head(runs) /= <<>> THEN <<text_part(Head(runs))>> ELSE <<>>)
         \o group_parts(Tail(runs))

RECURSIVE text_parts(_)
text_parts(el) ==
    IF el = <<>> THEN <<>>
    ELSE group_parts(Head(el).runs) \o text_parts(Tail(el))

\* the mutant of C27: the empty parts are joined too
RECURSIVE join_parts_all(_)
join_parts_all(parts) ==
    IF parts = <<>> THEN <<>>
    ELSE IF Tail(parts) = <<>> THEN Head(parts)[1]
    ELSE Head(parts)[1] \o <<SP>> \o join_parts_all(Tail(parts))

\* " ".join(part[0] for part in text_parts if part[0])
RECURSIVE join_parts(_)
join_parts(parts) ==
    IF parts = <<>> THEN <<>>
    ELSE LET rest == join_parts(Tail(parts)) IN
         IF Head(parts)[1] = <<>> THEN rest
         ELSE IF rest = <<>> THEN Head(parts)[1]
         ELSE Head(parts)[1] \o <<SP>> \o rest

\* (translatable_text, metadata, text_parts)
extract_text_and_metadata_from_element(el) ==
    LET parts == text_parts(el) IN
    << join_parts(parts), [i \in 1..Len(el) |-> el[i].attrib], parts >>

\* the character loop of _update_element_with_translation, from character i
\* on, with the tokens and the current word it has so far
RECURSIVE split_loop(_, _, _, _)
split_loop(text, i, ws, current_word) ==
    IF i > Len(text)
    THEN IF current_word /= <<>> THEN Append(ws, <<current_word, FALSE>>) ELSE ws
    ELSE IF isspace(text[i])
         THEN IF current_word /= <<>>
              THEN split_loop(text, i + 1,
                              ws \o << <<current_word, FALSE>>, <<<<SP>>, TRUE>> >>,
                              <<>>)
              ELSE IF ws = <<>> \/ ws[Len(ws)][1] /= <<SP>>
                   THEN split_loop(text, i + 1, Append(ws, <<<<SP>>, TRUE>>), <<>>)
                   ELSE split_loop(text, i + 1, ws, <<>>)
         ELSE split_loop(text, i + 1, ws, Append(current_word, text[i]))

\* the mutant of C7: words only, the space after a word is not emitted
RECURSIVE split_loop_no_space(_, _, _, _)
split_loop_no_space(text, i, ws, current_word) ==
    IF i > Len(text)
    THEN IF current_word /= <<>> THEN Append(ws, <<current_word, FALSE>>) ELSE ws
    ELSE IF isspace(text[i])
         THEN IF current_word /= <<>>
              THEN split_loop_no_space(text, i + 1,
                                       Append(ws, <<current_word, FALSE>>), <<>>)
              ELSE split_loop_no_space(text, i + 1, ws, <<>>)
         ELSE split_loop_no_space(text, i + 1, ws, Append(current_word, text[i]))

split_words_no_space(text) == split_loop_no_space(text, 1, <<>>, <<>>)

\* the mutant of C20: a space token for every whitespace character
RECURSIVE split_loop_every_space(_, _, _, _)
split_loop_every_space(text, i, ws, current_word) ==
    IF i > Len(text)
    THEN IF current_word /= <<>> THEN Append(ws, <<current_word, FALSE>>) ELSE ws
    ELSE IF isspace(text[i])
         THEN split_loop_every_space(text, i + 1,
                 (IF current_word /= <<>> THEN Append(ws, <<current_word, FALSE>>) ELSE ws)
                 \o << <<<<SP>>, TRUE>> >>,
                 <<>>)
         ELSE split_loop_every_space(text, i + 1, ws, Append(current_word, text[i]))

split_words_every_space(text) == split_loop_every_space(text, 1, <<>>, <<>>)

\* the (word, is_space) tokens of a translated text
split_words(text) == split_loop(text, 1, <<>>, <<>>)

\* the rebuilt field: one style-group per token, with the attributes of the
\* metadata at its position, holding one run
rebuilt_element(ws, meta) ==
    [i \in 1..Len(ws) |->
        SGroup(IF i <= Len(meta) THEN meta[i] ELSE {},
               << IF ws[i][2] THEN <<SP>> ELSE ws[i][1] >>)]

\* a child of the field: a <p> paragraph
Para(old, groups) == [old |-> old, groups |-> groups]

\* the mutant of C21: the iteration goes by position, as over a list
RECURSIVE remove_loop_by_position(_, _)
remove_loop_by_position(cs, i) ==
    IF i > Len(cs) THEN cs
    ELSE remove_loop_by_position(SubSeq(cs, 1, i - 1) \o SubSeq(cs, i + 1, Len(cs)),
                                 i + 1)

remove_children_by_position(n) == remove_loop_by_position([i \in 1..n |-> i], 1)

\* for child in element: element.remove(child), from the child the
\* iterator yields next (0 when it is exhausted); cs are the children still
\* in the element.  The iterator of lxml takes the sibling that follows a
\* child before it yields the child.
RECURSIVE remove_loop(_, _)
remove_loop(cs, node) ==
    IF node = 0 THEN cs
    ELSE LET pos == CHOOSE i \in 1..Len(cs) : cs[i] = node
             next == IF pos < Len(cs) THEN cs[pos + 1] ELSE 0
         IN remove_loop(SubSeq(cs, 1, pos - 1) \o SubSeq(cs, pos + 1, Len(cs)), next)

\* the children, of n, that are left after the loop, by their positions
remove_children(n) ==
    remove_loop([i \in 1..n |-> i], IF n = 0 THEN 0 ELSE 1)

\* the style-groups of the children at the positions kept
RECURSIVE kept_groups(_, _, _)
kept_groups(el, cs, kept) ==
    IF kept = <<>> THEN <<>>
    ELSE LET before == {j \in 1..(Head(kept) - 1) : TRUE}
             Sum[S \in SUBSET before] ==
                 IF S = {} THEN 0
                 ELSE LET j == CHOOSE x \in S : TRUE IN cs[j].groups + Sum[S \ {j}]
         IN SubSeq(el, Sum[before] + 1, Sum[before] + cs[Head(kept)].groups)
            \o kept_groups(el, cs, Tail(kept))

\* the children after the call: what the loop left, and the new <p>
updated_children(cs, kept, ws) ==
    [k \in 1..Len(kept) |-> Para(TRUE, cs[kept[k]].groups)]
        \o << Para(FALSE, Len(ws)) >>

MaxGroups == 2
MaxRuns == 3

\* the texts a run of a parsed field may hold
RunTexts == { <<>>, <<SP>>, <<"a">>, <<"a", SP, "b">>, <<SP, "b">> }

\* the translations handed to the reinjection, besides the extracted text
TranslatedTexts ==
    { <<>>, <<"x">>, <<"x", SP, "y">>, <<SP, "x", SP, TAB, "y", SP>>,
      <<"x", "y", TAB, "z">> }

\* the attributes of the style-groups: none, or one that tells them apart
Styles == { [i \in 1..MaxGroups |-> {}],
            [i \in 1..MaxGroups |-> {<<"id", i>>}] }

\* a field of n style-groups holding the runs rs, run k in group g[k]
FieldOf(rs, n, g, style) ==
    [i \in 1..n |->
        SGroup(style[i],
               LET idx == {k \in 1..Len(rs) : g[k] = i} IN
               [j \in 1..Cardinality(idx) |->
                   rs[CHOOSE k \in idx :
                        Cardinality({m \in idx : m < k}) = j - 1]])]

Fields ==
    { FieldOf(rs, n, g, style) :
        <<rs, n, g, style>> \in
            { q \in SeqsUpTo(RunTexts, MaxRuns) \X (0..MaxGroups)
                    \X SeqsUpTo(1..MaxGroups, MaxRuns) \X Styles :
                /\ Len(q[3]) = Len(q[1])
                /\ \A k \in 1..Len(q[3]) : q[3][k] <= q[2]
                /\ \A k \in 1..(Len(q[3]) - 1) : q[3][k] <= q[3][k + 1] } }

\* the paragraphs of a parsed field: one that holds every style-group, or
\* one for each style-group
Paragraphs(el) ==
    { << Para(FALSE, Len(el)) >>, [i \in 1..Len(el) |-> Para(FALSE, 1)] }

InitRuns ==
    /\ element \in Fields
    /\ field_children \in Paragraphs(element)
    /\ full_text = <<>> /\ metadata = <<>> /\ original_parts = <<>>
    /\ translated_text = <<>> /\ words = <<>>
    /\ runPc = "parsed"
    /\ LangAtRest /\ FilesAtRest /\ TreeAtRest /\ OpmlAtRest /\ CreateAtRest

\* full_text, metadata, original_parts = self._extract_...(element)
ExtractTextAndMetadata ==
    /\ runPc \in {"parsed", "updated"}
    /\ LET r == extract_text_and_metadata_from_element(element) IN
         /\ full_text' = r[1]
         /\ metadata' = r[2]
         /\ original_parts' = r[3]
    /\ runPc' = "extracted"
    /\ UNCHANGED <<element, translated_text, words, field_children>>
    /\ UNCHANGED <<langVars, fileVars, treeVars, opmlVars, createVars>>

\* self._update_element_with_translation(element, t, metadata, original_parts),
\* as process_files calls it: on a field whose extracted text is not blank
UpdateElementWithTranslation ==
    /\ runPc = "extracted"
    /\ strip(full_text) /= <<>>
    /\ \E t \in TranslatedTexts \cup {full_text} :
         /\ translated_text' = t
         /\ words' = split_words(t)
         /\ element' = kept_groups(element, field_children,
                                       remove_children(Len(field_children)))
                           \o rebuilt_element(split_words(t), metadata)
         /\ field_children' = updated_children(field_children,
                                               remove_children(Len(field_children)),
                                               split_words(t))
    /\ runPc' = "updated"
    /\ UNCHANGED <<full_text, metadata, original_parts>>
    /\ UNCHANGED <<langVars, fileVars, treeVars, opmlVars, createVars>>

NextRuns == ExtractTextAndMetadata \/ UpdateElementWithTranslation

SpecRuns == InitRuns /\ [][NextRuns]_vars

\* the texts of the runs of a field, one after the other
RECURSIVE RunsText(_)
RunsText(parts) ==
    IF parts = <<>> THEN <<>>
    ELSE (IF Head(parts)[2] THEN <<SP>> ELSE Head(parts)[1]) \o RunsText(Tail(parts))

NoDoubleSpace(s) == \A i \in 1..(Len(s) - 1) : ~(isspace(s[i]) /\ isspace(s[i + 1]))

\* the extracted text was reinjected unchanged
ReinjectedUnchanged == runPc = "updated" /\ translated_text = full_text

\* C7 as claimed: when the runs of the field hold no double space,
\* reinjecting the extracted text unchanged gives as many tokens as the
\* extraction gave parts.
C7_AsClaimed ==
    (ReinjectedUnchanged /\ NoDoubleSpace(RunsText(original_parts)))
        => Len(words) = Len(original_parts)

WordParts(parts) == {i \in 1..Len(parts) : parts[i][1] /= <<>>}

\* every text run is one word, and the space-only runs are one fewer than
\* the text runs (word, space, word, ...)
WordsAndSeparators(parts) ==
    /\ WordParts(parts) /= {}
    /\ \A i \in WordParts(parts) :
          \A k \in 1..Len(parts[i][1]) : ~isspace(parts[i][1][k])
    /\ Len(parts) = 2 * Cardinality(WordParts(parts)) - 1

\* C7 amended: when every text run of the field is a single word and the
\* field has exactly one space-only run fewer than text runs, reinjecting
\* the extracted text unchanged gives as many tokens as the extraction gave
\* parts.
C7_RunReconstruction ==
    (ReinjectedUnchanged /\ WordsAndSeparators(original_parts))
        => Len(words) = Len(original_parts)

\* C7 witness: word, space, word was reinjected unchanged as three tokens
C7_Witness ==
    /\ ReinjectedUnchanged
    /\ original_parts = << <<<<"a">>, FALSE>>, <<<<>>, TRUE>>, <<<<"a">>, FALSE>> >>
    /\ Len(words) = 3


\* the positions at which a maximal run of whitespace or of non-whitespace
\* characters starts
RunStarts(text) ==
    {i \in 1..Len(text) : i = 1 \/ isspace(text[i]) /= isspace(text[i - 1])}

\* the k-th maximal run of the text
MaximalRun(text, k) ==
    LET first == CHOOSE i \in RunStarts(text) :
                     Cardinality({j \in RunStarts(text) : j < i}) = k - 1
        later == {j \in RunStarts(text) : j > first}
        last == IF later = {} THEN Len(text)
                ELSE (CHOOSE j \in later : \A l \in later : j <= l) - 1
    IN SubSeq(text, first, last)

\* C20: the tokens of a translated string are, in order, one token for
\* each maximal run of it: the run itself as a word token when it is not
\* whitespace, one space token when it is; no two space tokens are
\* adjacent.
C20_TokensAreMaximalRuns ==
    runPc = "updated" =>
        /\ Len(words) = Cardinality(RunStarts(translated_text))
        /\ \A k \in 1..Len(words) :
              LET run == MaximalRun(translated_text, k) IN
              IF isspace(run[1])
              THEN words[k] = << <<SP>>, TRUE >>
              ELSE words[k] = << run, FALSE >>
        /\ \A k \in 1..(Len(words) - 1) : ~(words[k][2] /\ words[k + 1][2])

\* a string with leading, doubled and trailing whitespace was tokenized
C20_Witness ==
    /\ runPc = "updated"
    /\ translated_text = <<SP, "x", SP, TAB, "y", SP>>
    /\ Len(words) = 5

\* C21: after _update_element_with_translation no child of the field from
\* before the call is left; the field holds one style-group per token, in
\* the order of the tokens; the style-group at position i has the attributes
\* of metadata[i] when there is one and none otherwise, and holds one run:
\* the word, or a single space for a space token.
C21_RebuiltFromScratch ==
    runPc = "updated" =>
        /\ \A k \in 1..Len(field_children) : ~field_children[k].old
        /\ Len(element) = Len(words)
        /\ \A i \in 1..Len(element) :
              /\ element[i].attrib = (IF i <= Len(metadata) THEN metadata[i] ELSE {})
              /\ Len(element[i].runs) = 1
              /\ element[i].runs[1] = (IF words[i][2] THEN <<SP>> ELSE words[i][1])

\* a field of two paragraphs with attributes was rebuilt with more tokens
\* than it had style-groups
C21_Witness ==
    /\ runPc = "updated"
    /\ Len(metadata) = 2
    /\ metadata[1] /= {}
    /\ Len(words) = 5
    /\ field_children = << Para(FALSE, 5) >>
    /\ element[3].attrib = {}

\* the runs of the style-groups of a field, in document order
RECURSIVE all_runs(_)
all_runs(el) == IF el = <<>> THEN <<>> ELSE Head(el).runs \o all_runs(Tail(el))

\* C22 as claimed: the extraction returns one metadata entry per
\* style-group and one (trimmed text, is_space) tuple for every run in
\* document order, runs without text included; the translatable string is
\* the non-empty tuple texts joined by single spaces.
C22_OneTuplePerRun ==
    runPc = "extracted" =>
        /\ Len(metadata) = Len(element)
        /\ \A i \in 1..Len(element) : metadata[i] = element[i].attrib
        /\ Len(original_parts) = Len(all_runs(element))
        /\ \A k \in 1..Len(original_parts) :
              original_parts[k] = << strip(all_runs(element)[k]),
                                    str_isspace(all_runs(element)[k]) >>
        /\ full_text = join_parts(original_parts)

\* the maximal runs of non-whitespace characters of a text, joined by
\* single spaces
RECURSIVE JoinedWords(_, _)
JoinedWords(text, k) ==
    IF k > Cardinality(RunStarts(text)) THEN <<>>
    ELSE LET run == MaximalRun(text, k)
             rest == JoinedWords(text, k + 1)
         IN IF isspace(run[1]) THEN rest
            ELSE IF rest = <<>> THEN run
            ELSE run \o <<SP>> \o rest

\* C27: extracting a field that _update_element_with_translation has just
\* rebuilt from a translated string gives the words of that string, in
\* order, joined by single spaces.
C27_ReinjectThenExtract ==
    [][(runPc = "updated" /\ runPc' = "extracted")
          => full_text' = JoinedWords(translated_text, 1)]_vars

\* a string with leading, doubled and trailing whitespace was reinjected
\* and extracted again
C27_Witness ==
    /\ runPc = "extracted"
    /\ translated_text = <<SP, "x", SP, TAB, "y", SP>>
    /\ Len(element) = 5
    /\ full_text = <<"x", SP, "y">>

---------------------------------------------------------------------------
(* The gridset documents.                                                  *)
(*                                                                         *)
(* grid.xml: whether it parses; the Name attribute of its root; its row    *)
(* and column definitions; its Cells/Cell elements (the X and Y attributes,*)
(* whether the cell has a Content, the text of Content's Caption, its      *)
(* Commands); its Parameter[@Key='text'] fields in document order; its     *)
(* WordList items (the text of the item's Text element and the texts of    *)
(* the <r> runs below it).                                                 *)
(* settings.xml: whether it exists and parses, and the children of its     *)
(* root, each a tag and a text.                                            *)

Command(id, grid) == [ID |-> id, grid |-> grid]

Cell(x, y, content, caption, commands) ==
    [X |-> x, Y |-> y, content |-> content, caption |-> caption,
     commands |-> commands]

Item(text, runs) == [text |-> text, runs |-> runs]

GridDoc(ok, name, rows, cols, cells, params, items) ==
    [ok |-> ok, name |-> name, rows |-> rows, cols |-> cols, cells |-> cells,
     params |-> params, items |-> items]

Child(tag, text) == [tag |-> tag, text |-> text]

Settings(exists, ok, children) ==
    [exists |-> exists, ok |-> ok, children |-> children]

\* Element.find(tag): the index of the first child with the tag, 0 for None
find(children, tag) ==
    IF \E i \in 1..Len(children) : children[i].tag = tag
    THEN CHOOSE i \in 1..Len(children) :
            /\ children[i].tag = tag
            /\ \A j \in 1..(i - 1) : children[j].tag /= tag
    ELSE 0

\* list.insert(index, x), index counted from 0
insert(seq, index, x) ==
    SubSeq(seq, 1, index) \o <<x>> \o SubSeq(seq, index + 1, Len(seq))

---------------------------------------------------------------------------
(* GridsetProcessor.process_files.  The translations argument is None, or *)
(* a dict from strings to strings that may hold the key "target_lang".    *)

TargetLangKey == <<"target_lang">>

NoTranslations == [none |-> TRUE, dict |-> <<>>]
Translations(d) == [none |-> FALSE, dict |-> d]

\* os.path.splitext: the extension starts at the last dot of the last
\* component, leading dots of the component aside
LastIndexOf(path, ch) ==
    IF \E i \in 1..Len(path) : path[i] = ch
    THEN CHOOSE i \in 1..Len(path) :
            path[i] = ch /\ \A j \in (i + 1)..Len(path) : path[j] /= ch
    ELSE 0

\* the mutant of C2: the extension is split at the first dot of the path
splitext_first_dot(path) ==
    IF \E i \in 1..Len(path) : path[i] = "."
    THEN LET dot == CHOOSE i \in 1..Len(path) :
                        path[i] = "." /\ \A j \in 1..(i - 1) : path[j] /= "."
         IN << SubSeq(path, 1, dot - 1), SubSeq(path, dot, Len(path)) >>
    ELSE << path, <<>> >>

splitext(path) ==
    LET sep == LastIndexOf(path, "/")
        dot == LastIndexOf(path, ".")
    IN IF dot > sep /\ \E k \in (sep + 1)..(dot - 1) : path[k] /= "."
       THEN << SubSeq(path, 1, dot - 1), SubSeq(path, dot, Len(path)) >>
       ELSE << path, <<>> >>

\* a Caption or an <r> of a word list: the text it is looked up by, if any
\* (lines 124-125 and 158-159)
lookup_text(text) == IF text /= <<>> /\ strip(text) /= <<>> THEN <<strip(text)>> ELSE <<>>

\* the mutant of C28: the replacement is looked up again
translated_twice(text, d) ==
    LET once(t) == IF lookup_text(t) /= <<>> /\ lookup_text(t)[1] \in DOMAIN d
                   THEN d[lookup_text(t)[1]]
                   ELSE t
    IN once(once(text))

\* lines 126-130 and 160-164 in apply mode: the text after the call
translated(text, d) ==
    IF lookup_text(text) /= <<>> /\ lookup_text(text)[1] \in DOMAIN d
    THEN d[lookup_text(text)[1]]
    ELSE text

\* lines 135-151 in apply mode: the field after the call
translated_field(field, d) ==
    LET r == extract_text_and_metadata_from_element(field) IN
    IF strip(r[1]) /= <<>> /\ r[1] \in DOMAIN d
    THEN rebuilt_element(split_words(d[r[1]]), r[2])
    ELSE field

\* the text a field is looked up by, if any (line 140)
field_text(field) ==
    LET r == extract_text_and_metadata_from_element(field) IN
    IF strip(r[1]) /= <<>> THEN <<r[1]>> ELSE <<>>

RECURSIVE Concat(_)
Concat(seqs) == IF seqs = <<>> THEN <<>> ELSE Head(seqs) \o Concat(Tail(seqs))

\* the texts process_files looks up in one grid.xml, in the order it visits
\* them: captions, text parameters, word-list runs (lines 122-164)
grid_texts(doc) ==
    Concat([i \in 1..Len(doc.cells) |-> lookup_text(doc.cells[i].caption)])
    \o Concat([i \in 1..Len(doc.params) |-> field_text(doc.params[i])])
    \o Concat([i \in 1..Len(doc.items) |->
                 Concat([j \in 1..Len(doc.items[i].runs) |->
                           lookup_text(doc.items[i].runs[j])])])

\* one grid.xml in apply mode: whether a text of it is a key of the dict
grid_hit(doc, d) == \E i \in 1..Len(grid_texts(doc)) : grid_texts(doc)[i] \in DOMAIN d

\* the mutant of C14: the grid parameter of a command is translated as well
translated_grid_and_targets(doc, d) ==
    [doc EXCEPT
        !.cells = [i \in 1..Len(doc.cells) |->
                     [doc.cells[i] EXCEPT
                        !.caption = translated(@, d),
                        !.commands = [k \in 1..Len(@) |->
                                        [@[k] EXCEPT !.grid = translated(@, d)]]]],
        !.params = [i \in 1..Len(doc.params) |-> translated_field(doc.params[i], d)],
        !.items = [i \in 1..Len(doc.items) |->
                     [doc.items[i] EXCEPT
                        !.runs = [j \in 1..Len(doc.items[i].runs) |->
                                    translated(doc.items[i].runs[j], d)]]]]

\* one grid.xml in apply mode: the document in memory after lines 122-164
translated_grid(doc, d) ==
    [doc EXCEPT
        !.cells = [i \in 1..Len(doc.cells) |->
                     [doc.cells[i] EXCEPT !.caption = translated(@, d)]],
        !.params = [i \in 1..Len(doc.params) |-> translated_field(doc.params[i], d)],
        !.items = [i \in 1..Len(doc.items) |->
                     [doc.items[i] EXCEPT
                        !.runs = [j \in 1..Len(doc.items[i].runs) |->
                                    translated(doc.items[i].runs[j], d)]]]]

\* settings.xml, lines 59-110: the description text looked up, if any
description_text(st) ==
    LET di == find(st.children, "Description") IN
    IF st.exists /\ st.ok /\ di /= 0 /\ st.children[di].text /= <<>>
    THEN <<strip(st.children[di].text)>>
    ELSE <<>>

\* lines 71-73: the Description is replaced
description_hit(st, tr) ==
    /\ ~tr.none
    /\ description_text(st) /= <<>>
    /\ description_text(st)[1] \in DOMAIN tr.dict

\* line 76: the Language tag is updated
language_update(st, tr) ==
    st.exists /\ st.ok /\ ~tr.none /\ TargetLangKey \in DOMAIN tr.dict

\* the mutant of C13: the Description counts as modified in discovery mode
settings_modified_any_mode(st, tr) ==
    (st.exists /\ st.ok /\ description_text(st) /= <<>>) \/ language_update(st, tr)

\* the value of modified when the settings block is left (lines 47, 73, 97)
settings_modified(st, tr) == description_hit(st, tr) \/ language_update(st, tr)

\* the mutant of C23: a new Language element is always added at the end
settings_children_appended(st, tr) ==
    LET di == find(st.children, "Description")
        c1 == IF description_hit(st, tr)
              THEN [st.children EXCEPT ![di].text = tr.dict[description_text(st)[1]]]
              ELSE st.children
        li == find(c1, "Language")
        grid3 == map_language_code(tr.dict[TargetLangKey])
    IN IF ~language_update(st, tr) THEN c1
       ELSE IF li /= 0 THEN [c1 EXCEPT ![li].text = grid3]
       ELSE Append(c1, Child("Language", grid3))

\* the children of the settings root in memory after lines 66-97
settings_children(st, tr) ==
    LET di == find(st.children, "Description")
        c1 == IF description_hit(st, tr)
              THEN [st.children EXCEPT ![di].text = tr.dict[description_text(st)[1]]]
              ELSE st.children
        li == find(c1, "Language")
        grid3 == map_language_code(tr.dict[TargetLangKey])
    IN IF ~language_update(st, tr) THEN c1
       ELSE IF li /= 0 THEN [c1 EXCEPT ![li].text = grid3]
       ELSE IF di /= 0 THEN insert(c1, di, Child("Language", grid3))
       ELSE Append(c1, Child("Language", grid3))

\* settings.xml on disk after lines 59-110: written only when modified
settings_after(st, tr) ==
    IF st.exists /\ st.ok /\ settings_modified(st, tr)
    THEN [st EXCEPT !.children = settings_children(st, tr)]
    ELSE st

\* the value of modified after the i-th grid.xml of the walk (lines 113-177)
modified_after(d, tr, i) ==
    \/ settings_modified(d.settings, tr)
    \/ /\ ~tr.none
       /\ \E j \in 1..i : d.grids[j].ok /\ grid_hit(d.grids[j], tr.dict)

\* the grid.xml files on disk after the walk: written only when modified
grids_after(d, tr) ==
    [i \in 1..Len(d.grids) |->
        IF d.grids[i].ok /\ modified_after(d, tr, i)
        THEN translated_grid(d.grids[i], tr.dict)
        ELSE d.grids[i]]

\* the files tree.write rewrote (lines 100-106 and 166-172)
files_rewritten(d, tr) ==
    (IF d.settings.exists /\ d.settings.ok /\ settings_modified(d.settings, tr)
     THEN {0} ELSE {})
    \cup {i \in 1..Len(d.grids) : d.grids[i].ok /\ modified_after(d, tr, i)}

\* self.collected_texts after the call (lines 48, 70, 127, 142, 161)
texts_collected(d, tr) ==
    IF ~d.hasGrids \/ ~tr.none THEN <<>>
    ELSE description_text(d.settings)
         \o Concat([i \in 1..Len(d.grids) |->
                      IF d.grids[i].ok THEN grid_texts(d.grids[i]) ELSE <<>>])

\* the directory after the call
dir_after(d, tr) ==
    IF ~d.hasGrids THEN d
    ELSE [d EXCEPT !.settings = settings_after(d.settings, tr),
                   !.grids = grids_after(d, tr)]

\* every file below the directory, as os.walk finds them (lines 191-195)
walk_files(d) == [settings |-> d.settings, grids |-> d.grids, others |-> d.others]

\* the mutant of C2: only the grid.xml files are added to the container
walk_files_grids_only(d) ==
    [settings |-> Settings(FALSE, FALSE, <<>>), grids |-> d.grids, others |-> {}]

\* line 180: a container is written
writes_container(d, tr) ==
    d.hasGrids /\ ~tr.none /\ modified_after(d, tr, Len(d.grids))

\* lines 182-186: the path of the container
translated_path(d, tr) ==
    LET target_lang == IF TargetLangKey \in DOMAIN tr.dict
                       THEN tr.dict[TargetLangKey] ELSE <<"unknown">>
        base_name == splitext(d.path)[1]
    IN base_name \o <<"_">> \o target_lang \o <<".", "gridset">>

\* dict[key] = value
put(dict, key, value) ==
    [k \in DOMAIN dict \cup {key} |-> IF k = key THEN value ELSE dict[k]]

MaxCalls == 1
MaxGridFiles == 2

ProcessFiles(tr) ==
    /\ pfCalls < MaxCalls
    /\ pfCalls' = pfCalls + 1
    /\ translations' = tr
    /\ collected_texts' = texts_collected(dir, tr)
    /\ dir' = dir_after(dir, tr)
    /\ rewritten' = IF dir.hasGrids THEN files_rewritten(dir, tr) ELSE {}
    /\ IF writes_container(dir, tr)
       THEN /\ containers' = put(containers, translated_path(dir, tr),
                                 walk_files(dir_after(dir, tr)))
            /\ ret' = translated_path(dir, tr)
       ELSE /\ containers' = containers
            /\ ret' = <<>>
    /\ UNCHANGED <<langVars, runVars, treeVars, opmlVars, createVars>>

\* the directories process_files is given, each as its stem and its
\* extension: a dot in a directory name, an extension, a leading dot
DirParts == { << <<"/", "t", ".", "d", "/", "set">>, <<>> >>,
              << <<"/", "t", ".", "d", "/", "set">>, <<".", "gridset">> >>,
              << <<"/", "tmp", "/", ".", "set">>, <<>> >> }

\* a text field of the runs word, space, word
FieldAB == << SGroup({<<"id", 1>>}, << <<"a">> >>), SGroup({}, << <<SP>> >>),
              SGroup({<<"id", 3>>}, << <<"b">> >>) >>

\* the grid.xml files of the directory (one has a cell that jumps to a grid
\* named like its caption)
FileDocs ==
    { GridDoc(FALSE, <<>>, 0, 0, <<>>, <<>>, <<>>),
      GridDoc(TRUE, <<"Home">>, 1, 2,
              << Cell(<<"0">>, <<"0">>, TRUE, <<"a">>,
                      << Command("Jump.To", <<"p2">>) >>),
                 Cell(<<"1">>, <<"0">>, TRUE, <<SP>>, <<>>) >>,
              <<>>, <<>>),
      GridDoc(TRUE, <<>>, 1, 1,
              << Cell(<<"0">>, <<"0">>, TRUE, <<SP, "b", SP>>,
                      << Command("Action.Speak", <<>>),
                         Command("Jump.To", <<"b">>) >>) >>,
              << FieldAB >>, <<>>),
      GridDoc(TRUE, <<>>, 1, 1, <<>>, << << SGroup({}, << <<SP>> >>) >> >>,
              << Item(<<>>, << <<"a">>, <<SP>> >>) >>) }

\* the settings.xml of the directory
FileSettings ==
    { Settings(FALSE, FALSE, <<>>),
      Settings(TRUE, FALSE, <<>>),
      Settings(TRUE, TRUE, <<>>),
      Settings(TRUE, TRUE, << Child("Description", <<"a">>),
                              Child("StartGrid", <<"p1">>) >>),
      Settings(TRUE, TRUE, << Child("StartGrid", <<"p1">>),
                              Child("Description", <<SP, "b">>),
                              Child("Language", Region("en", "GB")) >>) }

\* the dicts of translations, without and with a target language
TextDicts ==
    { <<>>,
      (<<"a">> :> <<"x">>),
      (<<"a">> :> <<"b">>) @@ (<<"b">> :> <<"a">>),
      (<<"a", SP, "b">> :> <<"x", SP, SP, "y">>) }

TargetLangs == { Short("fr") }

TranslationArgs ==
    {NoTranslations}
    \cup {Translations(d) : d \in TextDicts}
    \cup {Translations(put(d, TargetLangKey, l)) : d \in TextDicts, l \in TargetLangs}

\* what an earlier call on another directory left in collected_texts
EarlierTexts == << <<"z">> >>

InitFiles ==
    /\ \E part \in DirParts, st \in FileSettings,
          gs \in SeqsUpTo(FileDocs, MaxGridFiles), hasGrids \in BOOLEAN :
         /\ ~hasGrids => gs = <<>>
         /\ dir = [path |-> part[1] \o part[2], hasGrids |-> hasGrids, settings |-> st,
                   grids |-> gs, others |-> {"FileMap.xml"}]
    /\ translations = NoTranslations
    /\ ret = <<>>
    /\ rewritten = {}
    /\ collected_texts \in {<<>>, EarlierTexts}
    /\ containers = <<>>
    /\ pfCalls = 0
    /\ LangAtRest /\ RunsAtRest /\ TreeAtRest /\ OpmlAtRest /\ CreateAtRest

NextFiles == \E tr \in TranslationArgs : ProcessFiles(tr)

SpecFiles == InitFiles /\ [][NextFiles]_vars

\* a call of process_files in apply mode
ApplyCall == pfCalls' = pfCalls + 1 /\ ~translations'.none

\* the strings process_files finds in the directory: those a call in
\* discovery mode collects
FoundTexts(d) == Range(texts_collected(d, NoTranslations))

\* C1 as claimed: an apply-mode call on a directory none of whose strings is
\* a key of the map writes no container and returns nothing.
C1_NoMatchNoOutput ==
    [][(ApplyCall /\ FoundTexts(dir) \cap DOMAIN translations'.dict = {})
          => (ret' = <<>> /\ containers' = containers)]_vars

\* C2: an apply-mode call with a target_lang that replaces at least one
\* string writes every file of the directory, as it is after the call, to
\* the container <stem>_<target_lang>.gridset, <stem> the directory without
\* its extension, and returns that path.
C2_RepackagedAs ==
    [][(/\ ApplyCall
        /\ TargetLangKey \in DOMAIN translations'.dict
        /\ FoundTexts(dir) \cap DOMAIN translations'.dict /= {})
          => \A part \in DirParts :
                dir.path = part[1] \o part[2] =>
                  /\ ret' = part[1] \o <<"_">> \o translations'.dict[TargetLangKey]
                                 \o <<".", "gridset">>
                  /\ ret' \in DOMAIN containers'
                  /\ containers'[ret'] =
                        [settings |-> dir'.settings, grids |-> dir'.grids,
                         others |-> dir'.others]]_vars

\* C2 witness: a caption of a directory with an extension and a dot in a
\* directory name was replaced and the container written and returned
C2_Witness ==
    /\ pfCalls > 0 /\ ~translations.none
    /\ dir.path = <<"/", "t", ".", "d", "/", "set", ".", "gridset">>
    /\ ret = <<"/", "t", ".", "d", "/", "set", "_", "fr", ".", "gridset">>
    /\ ret \in DOMAIN containers
    /\ \E i \in 1..Len(dir.grids) : \E k \in 1..Len(dir.grids[i].cells) :
          dir.grids[i].cells[k].caption = <<"x">>

\* C3 as claimed: an apply-mode call with a map without target_lang writes
\* no container and returns nothing.
C3_NoTargetLangNoOutput ==
    [][(ApplyCall /\ TargetLangKey \notin DOMAIN translations'.dict)
          => (ret' = <<>> /\ containers' = containers)]_vars

\* a call of process_files in discovery mode
DiscoveryCall == pfCalls' = pfCalls + 1 /\ translations'.none

\* the strings of the directory: its description, its captions, the texts
\* of its text parameters and of its word-list runs, blank ones aside
DirStrings(d) ==
    {strip(d.settings.children[i].text) : i \in {k \in 1..Len(d.settings.children) :
        d.settings.exists /\ d.settings.ok /\ d.settings.children[k].tag = "Description"}}
    \cup UNION {
        {strip(d.grids[g].cells[i].caption) : i \in 1..Len(d.grids[g].cells)}
        \cup {extract_text_and_metadata_from_element(d.grids[g].params[i])[1] :
                i \in 1..Len(d.grids[g].params)}
        \cup UNION {{strip(d.grids[g].items[i].runs[j]) :
                       j \in 1..Len(d.grids[g].items[i].runs)} :
                    i \in 1..Len(d.grids[g].items)}
        : g \in {k \in 1..Len(d.grids) : d.grids[k].ok}}

\* C13: a call in discovery mode leaves the directory as it was, rewrites
\* no file, writes no container, returns nothing, and leaves in
\* collected_texts only non-blank strings of the directory, none of them
\* from an earlier call.
C13_DiscoveryMutatesNothing ==
    [][DiscoveryCall =>
          /\ dir' = dir
          /\ rewritten' = {}
          /\ containers' = containers
          /\ ret' = <<>>
          /\ \A i \in 1..Len(collected_texts') :
                /\ collected_texts'[i] \in DirStrings(dir)
                /\ strip(collected_texts'[i]) /= <<>>
          /\ (~dir.hasGrids => collected_texts' = <<>>)]_vars

\* a discovery call has collected the description a and a caption of a
\* directory with two grid.xml files
C13_Witness ==
    /\ pfCalls > 0 /\ translations.none
    /\ Len(dir.grids) = 2
    /\ Len(collected_texts) >= 2
    /\ collected_texts[1] = <<"a">>
    /\ description_text(dir.settings) = << <<"a">> >>
    /\ ret = <<>> /\ containers = <<>> /\ rewritten = {}

\* C14: an apply-mode call changes text only: the directory has the same
\* grid.xml files, and each has the same cells with the same X and Y and
\* the same commands, Jump.To targets included.
C14_StructureUnchanged ==
    [][ApplyCall =>
          /\ Len(dir'.grids) = Len(dir.grids)
          /\ \A g \in 1..Len(dir.grids) :
                /\ dir'.grids[g].ok = dir.grids[g].ok
                /\ Len(dir'.grids[g].cells) = Len(dir.grids[g].cells)
                /\ \A i \in 1..Len(dir.grids[g].cells) :
                      /\ dir'.grids[g].cells[i].X = dir.grids[g].cells[i].X
                      /\ dir'.grids[g].cells[i].Y = dir.grids[g].cells[i].Y
                      /\ dir'.grids[g].cells[i].content = dir.grids[g].cells[i].content
                      /\ dir'.grids[g].cells[i].commands = dir.grids[g].cells[i].commands]_vars

\* an apply-mode call has replaced the caption b of a cell that jumps to
\* the grid b, and b is still its target
C14_Witness ==
    /\ pfCalls > 0 /\ ~translations.none
    /\ <<"b">> \in DOMAIN translations.dict
    /\ \E g \in 1..Len(dir.grids) : \E i \in 1..Len(dir.grids[g].cells) :
          /\ dir.grids[g].cells[i].caption = <<"a">>
          /\ \E k \in 1..Len(dir.grids[g].cells[i].commands) :
                dir.grids[g].cells[i].commands[k] = Command("Jump.To", <<"b">>)
          /\ g \in rewritten

\* the positions of the Language elements among the children of a root
Languages(cs) == {i \in 1..Len(cs) : cs[i].tag = "Language"}

\* the tags of the children without the child at position k
TagsWithout(cs, k) ==
    [i \in 1..(Len(cs) - 1) |-> IF i < k THEN cs[i].tag ELSE cs[i + 1].tag]

Tags(cs) == [i \in 1..Len(cs) |-> cs[i].tag]

\* an apply-mode call with a target_lang
LanguageCall == ApplyCall /\ TargetLangKey \in DOMAIN translations'.dict

\* after the call the root has one Language element and it holds the code
OneLanguage(after, code) ==
    /\ Cardinality(Languages(after)) = 1
    /\ \A i \in Languages(after) : after[i].text = code

\* C23 as claimed: after an apply-mode call with a target_lang, a
\* settings.xml that parses has exactly one Language element, holding the
\* mapped code: the one it had, or a new one right after the Description
\* element.
C23_AsClaimed ==
    [][(LanguageCall /\ dir.settings.exists /\ dir.settings.ok)
          => LET before == dir.settings.children
                 after == dir'.settings.children
                 li == find(before, "Language")
                 di == find(before, "Description")
             IN /\ OneLanguage(after,
                               map_language_code(translations'.dict[TargetLangKey]))
                /\ li /= 0 => (Tags(after) = Tags(before))
                /\ li = 0 => /\ di /= 0
                             /\ after[di + 1].tag = "Language"
                             /\ TagsWithout(after, di + 1) = Tags(before)]_vars

\* C23 amended: the same for a directory that has a Grids directory and
\* whose settings.xml parses and has at most one Language element; when
\* the root has no Description element either, the new Language element is
\* its last child.
C23_LanguageElement ==
    [][(/\ LanguageCall
        /\ dir.hasGrids /\ dir.settings.exists /\ dir.settings.ok
        /\ Cardinality(Languages(dir.settings.children)) <= 1)
          => LET before == dir.settings.children
                 after == dir'.settings.children
                 li == find(before, "Language")
                 di == find(before, "Description")
             IN /\ OneLanguage(after,
                               map_language_code(translations'.dict[TargetLangKey]))
                /\ li /= 0 => (Tags(after) = Tags(before))
                /\ (li = 0 /\ di /= 0) =>
                       /\ after[di + 1].tag = "Language"
                       /\ TagsWithout(after, di + 1) = Tags(before)
                /\ (li = 0 /\ di = 0) =>
                       /\ after[Len(after)].tag = "Language"
                       /\ TagsWithout(after, Len(after)) = Tags(before)]_vars

\* a Language element was created between the Description and the
\* StartGrid elements
C23_Witness ==
    /\ pfCalls > 0 /\ ~translations.none
    /\ TargetLangKey \in DOMAIN translations.dict
    /\ 0 \in rewritten
    /\ Tags(dir.settings.children) = <<"Description", "Language", "StartGrid">>
    /\ dir.settings.children[2].text = map_language_code(Short("fr"))

---------------------------------------------------------------------------
(* The interchange tree, and GridsetProcessor.load_into_tree.              *)
(*                                                                         *)
(* A gridset file is what its archive holds: whether there is a Grids      *)
(* directory, the names of the directories below it, the grid.xml of those *)
(* that have one, and Settings0/settings.xml.  A tree is its pages in the  *)
(* order they were added (a dict) and its root_id, <<>> for None.  The X   *)
(* and Y of a cell are the attribute's string, <<>> for no attribute.      *)

SPEAK == "SPEAK"
NAVIGATE == "NAVIGATE"

Button(id, label, type, position, vocalization, target_page_id) ==
    [id |-> id, label |-> label, type |-> type, position |-> position,
     vocalization |-> vocalization, target_page_id |-> target_page_id]

Page(id, name, grid_size, parent_id, buttons) ==
    [id |-> id, name |-> name, grid_size |-> grid_size, parent_id |-> parent_id,
     buttons |-> buttons]

\* AACTree()
EmptyTree == [pages |-> <<>>, root_id |-> <<>>]

page_ids(t) == {t.pages[i].id : i \in 1..Len(t.pages)}

\* tree.pages[page_id]
page_of(t, id) == t.pages[CHOOSE i \in 1..Len(t.pages) : t.pages[i].id = id]

\* AACTree.add_page: the page is stored under its id
add_page(t, page) ==
    IF page.id \in page_ids(t)
    THEN [t EXCEPT !.pages = [i \in 1..Len(t.pages) |->
                                IF t.pages[i].id = page.id THEN page ELSE t.pages[i]]]
    ELSE [t EXCEPT !.pages = Append(t.pages, page)]

Digits == <<"0", "1", "2", "3", "4", "5", "6", "7", "8", "9">>

digit_value(ch) == (CHOOSE i \in 1..10 : Digits[i] = ch) - 1

\* int(s) raises ValueError (s holds digits, blanks and letters)
int_raises(s) ==
    strip(s) = <<>> \/ \E i \in 1..Len(strip(s)) : strip(s)[i] \notin Range(Digits)

RECURSIVE digits_value(_)
digits_value(s) ==
    IF s = <<>> THEN 0
    ELSE 10 * digits_value(SubSeq(s, 1, Len(s) - 1)) + digit_value(s[Len(s)])

\* int(s), when it does not raise
int(s) == digits_value(strip(s))

\* str(n), n >= 0
RECURSIVE str(_)
str(n) == IF n < 10 THEN <<Digits[n + 1]>> ELSE str(n \div 10) \o <<Digits[(n % 10) + 1]>>

\* cell.get("X", "0")
get_attr(value, default) == IF value = <<>> THEN default ELSE value

\* lines 488-489 raise on this cell
cell_raises(cell) ==
    int_raises(get_attr(cell.X, <<"0">>)) \/ int_raises(get_attr(cell.Y, <<"0">>))

\* lines 509-515: the target of the last Jump.To command with a grid
\* parameter that has text, <<>> when there is none
RECURSIVE jump_target(_)
jump_target(commands) ==
    IF commands = <<>> THEN <<>>
    ELSE LET last == commands[Len(commands)] IN
         IF last.ID = "Jump.To" /\ last.grid /= <<>> THEN last.grid
         ELSE jump_target(SubSeq(commands, 1, Len(commands) - 1))

\* lines 488-517: the button of a cell, if it makes one
cell_button(grid_dir, cell) ==
    LET x == int(get_attr(cell.X, <<"0">>))
        y == int(get_attr(cell.Y, <<"0">>))
        target == jump_target(cell.commands)
    IN IF cell.content /\ cell.caption /= <<>>
       THEN << Button(grid_dir \o <<"_button_">> \o str(x) \o <<"_">> \o str(y),
                      strip(cell.caption),
                      IF target /= <<>> THEN NAVIGATE ELSE SPEAK,
                      <<x, y>>, strip(cell.caption), target) >>
       ELSE <<>>

\* lines 520-533: the button of a word-list item, if it makes one
word_button(grid_dir, item) ==
    IF item.text /= <<>>
    THEN << Button(grid_dir \o <<"_word_">> \o item.text, strip(item.text), SPEAK,
                   <<0, 0>>, strip(item.text), <<>>) >>
    ELSE <<>>

\* len(...) or 1
or_one(n) == IF n = 0 THEN 1 ELSE n

\* lines 475-533: the page of a grid.xml, with the buttons of its first n
\* cells and of its word-list items
page_of_grid(grid_dir, doc, n) ==
    Page(grid_dir, grid_dir, <<or_one(doc.rows), or_one(doc.cols)>>, <<>>,
         Concat([i \in 1..n |-> cell_button(grid_dir, doc.cells[i])])
         \o Concat([i \in 1..Len(doc.items) |-> word_button(grid_dir, doc.items[i])]))

\* the try block of lines 471-539 raises on this grid.xml
grid_raises(doc) ==
    ~doc.ok \/ \E i \in 1..Len(doc.cells) : cell_raises(doc.cells[i])

\* the mutant of C6: the page is added before its cells are processed, so a
\* page that raises stays in the tree with the buttons made so far
load_grid_added_first(t, grid_dir, doc) ==
    IF ~doc.ok THEN t
    ELSE IF grid_raises(doc)
    THEN LET bad == CHOOSE i \in 1..Len(doc.cells) :
                       /\ cell_raises(doc.cells[i])
                       /\ \A j \in 1..(i - 1) : ~cell_raises(doc.cells[j])
         IN add_page(t, [page_of_grid(grid_dir, doc, bad - 1) EXCEPT
                            !.buttons = Concat([i \in 1..(bad - 1) |->
                                           cell_button(grid_dir, doc.cells[i])])])
    ELSE add_page(t, page_of_grid(grid_dir, doc, Len(doc.cells)))

\* lines 471-539: the tree after one grid.xml
load_grid(t, grid_dir, doc) ==
    IF grid_raises(doc) THEN t
    ELSE add_page(t, page_of_grid(grid_dir, doc, Len(doc.cells)))

\* lines 466-539: the tree after the directories of the listing from i on
RECURSIVE load_grids(_, _, _, _)
load_grids(t, gs, listing, i) ==
    IF i > Len(listing) THEN t
    ELSE load_grids(IF listing[i] \in DOMAIN gs.docs
                    THEN load_grid(t, listing[i], gs.docs[listing[i]])
                    ELSE t,
                    gs, listing, i + 1)

\* lines 541-550: the text of the StartGrid of the settings, if any
start_grid(st) ==
    LET si == find(st.children, "StartGrid") IN
    IF st.exists /\ st.ok /\ si /= 0 THEN st.children[si].text ELSE <<>>

\* load_into_tree, the directories listed in the order of listing
load_into_tree(gs, listing) ==
    IF ~gs.hasGrids THEN EmptyTree
    ELSE LET t == load_grids(EmptyTree, gs, listing, 1) IN
         IF start_grid(gs.settings) /= <<>>
         THEN [t EXCEPT !.root_id = start_grid(gs.settings)]
         ELSE t

---------------------------------------------------------------------------
(* GridsetProcessor.save_from_tree.  The file it writes is modelled as     *)
(* what a parse of it gives back: a Caption written with the text "" has   *)
(* no text.                                                                *)

IsPrefix(pre, seq) == Len(pre) <= Len(seq) /\ SubSeq(seq, 1, Len(pre)) = pre

\* button.id.startswith(f"{page_id}_word_")
is_wordlist_button(page_id, button) == IsPrefix(page_id \o <<"_word_">>, button.id)

\* lines 606-621: the Cell of a button
saved_cell(button) ==
    Cell(str(button.position[1]), str(button.position[2]), TRUE, button.label,
         IF button.type = NAVIGATE
         THEN << Command("Jump.To", button.target_page_id) >>
         ELSE <<>>)

\* lines 586-640: the grid.xml of a page
saved_grid(page) ==
    LET IsWord(b) == is_wordlist_button(page.id, b)
        IsCell(b) == ~is_wordlist_button(page.id, b)
        cell_buttons == SelectSeq(page.buttons, IsCell)
        wordlist_buttons == SelectSeq(page.buttons, IsWord)
    IN GridDoc(TRUE, page.name, page.grid_size[1], page.grid_size[2],
               [i \in 1..Len(cell_buttons) |-> saved_cell(cell_buttons[i])],
               <<>>,
               [i \in 1..Len(wordlist_buttons) |->
                   Item(wordlist_buttons[i].label, <<>>)])

\* line 573 raises StopIteration: no root_id and no page
save_raises(t) == t.root_id = <<>> /\ t.pages = <<>>

\* save_from_tree: the gridset file written, when line 573 does not raise
save_from_tree(t) ==
    [hasGrids |-> t.pages /= <<>>,
     dirs |-> page_ids(t),
     docs |-> [id \in page_ids(t) |-> saved_grid(page_of(t, id))],
     settings |-> Settings(TRUE, TRUE,
                    << Child("StartGrid",
                             IF t.root_id /= <<>> THEN t.root_id ELSE t.pages[1].id) >>)]

---------------------------------------------------------------------------
(* GridsetProcessor.extract_texts *)

\* lines 329-344: the texts of one grid.xml, in the order they are appended
plain_grid_texts(doc) ==
    (IF doc.name /= <<>> THEN <<doc.name>> ELSE <<>>)
    \o Concat([i \in 1..Len(doc.cells) |-> lookup_text(doc.cells[i].caption)])
    \o Concat([i \in 1..Len(doc.items) |-> lookup_text(doc.items[i].text)])

\* lines 311-349: the list texts, the directories listed in the order of
\* listing
plain_texts(gs, listing) ==
    IF ~gs.hasGrids THEN <<>>
    ELSE Concat([i \in 1..Len(listing) |->
                   IF listing[i] \in DOMAIN gs.docs /\ gs.docs[listing[i]].ok
                   THEN plain_grid_texts(gs.docs[listing[i]])
                   ELSE <<>>])

\* the mutant of C8: the list is returned as it was collected
returned_texts_as_collected(collected) == {collected}

\* line 351, list(set(texts)): the lists that may be returned
returned_texts(collected) == Orders(Range(collected))

\* AACTree.get_path_to_page: the ids from the top page down to the page,
\* along parent_id
RECURSIVE get_path_to_page(_, _, _)
get_path_to_page(t, id, fuel) ==
    IF id \notin page_ids(t) \/ fuel = 0 THEN <<>>
    ELSE LET parent == page_of(t, id).parent_id IN
         (IF parent /= <<>> THEN get_path_to_page(t, parent, fuel - 1) ELSE <<>>)
         \o <<id>>

\* " > ".join(names)
RECURSIVE join_path(_)
join_path(names) ==
    IF names = <<>> THEN <<>>
    ELSE IF Len(names) = 1 THEN names[1]
    ELSE names[1] \o <<" > ">> \o join_path(Tail(names))

ContextualText(text, path, button_type, page_name) ==
    [text |-> text, path |-> path, button_type |-> button_type,
     page_name |-> page_name]

\* lines 384-438: the records of one button (a button of this loader has
\* no symbol)
button_records(button, path, page) ==
    (IF button.label /= <<>> /\ strip(button.label) /= <<>>
     THEN << ContextualText(button.label, path \o <<" > ">> \o button.label,
                            button.type, page.name) >>
     ELSE <<>>)
    \o
    (IF /\ button.vocalization /= <<>>
        /\ strip(button.vocalization) /= <<>>
        /\ button.vocalization /= button.label
     THEN << ContextualText(button.vocalization,
                            path \o <<" > ">> \o button.label \o <<" (vocalization)">>,
                            button.type, page.name) >>
     ELSE <<>>)

\* lines 361-438: the records of one page (its name is not blank)
page_records(t, page) ==
    LET ids == get_path_to_page(t, page.id, Len(t.pages))
        path == join_path([i \in 1..Len(ids) |-> page_of(t, ids[i]).name])
    IN << ContextualText(page.name, path, "page", page.name) >>
       \o Concat([i \in 1..Len(page.buttons) |->
                    button_records(page.buttons[i], path, page)])

\* lines 354-440: the records of the tree
contextual_texts(t) ==
    Concat([i \in 1..Len(t.pages) |-> page_records(t, t.pages[i])])

---------------------------------------------------------------------------
(* The specification of the tree operations of GridsetProcessor: a gridset *)
(* file is loaded into a tree, the tree is saved and the saved file loaded *)
(* again; or its texts are extracted, without and then with context.       *)

MaxPages == 2

\* the names of the grid directories
PageName(i) == <<"p">> \o str(i)
PageNames == {PageName(i) : i \in 1..MaxPages}

\* a grid directory that is not in the file
NoPage == PageName(0)

\* the grid.xml files: one that does not parse; one with a blank caption;
\* one with a cell whose X is not a number; one with padded and repeated
\* texts, a cell without Content and a Jump.To without a grid; a plain one
TreeDocs ==
    { GridDoc(FALSE, <<>>, 0, 0, <<>>, <<>>, <<>>),
      GridDoc(TRUE, <<"Home">>, 0, 0,
              << Cell(<<"0">>, <<"0">>, TRUE, <<"a">>,
                      << Command("Jump.To", PageName(2)) >>),
                 Cell(<<"1">>, <<"0">>, TRUE, <<SP>>, <<>>) >>,
              <<>>, <<>>),
      GridDoc(TRUE, <<>>, 1, 1,
              << Cell(<<"0">>, <<"0">>, TRUE, <<"a">>, <<>>),
                 Cell(<<"x">>, <<"0">>, TRUE, <<"b">>, <<>>) >>,
              <<>>, <<>>),
      GridDoc(TRUE, <<>>, 1, 2,
              << Cell(<<>>, <<>>, TRUE, <<SP, "a", SP>>,
                      << Command("Action.Speak", <<>>), Command("Jump.To", <<>>) >>),
                 Cell(<<"0">>, <<"0">>, FALSE, <<>>, <<>>) >>,
              <<>>,
              << Item(<<"a">>, <<>>), Item(<<"a">>, <<>>), Item(<<>>, <<>>) >>),
      GridDoc(TRUE, <<"Home">>, 2, 2,
              << Cell(<<"1">>, <<"1">>, TRUE, <<"b">>,
                      << Command("Jump.To", PageName(1)) >>) >>,
              <<>>,
              << Item(<<"b">>, <<>>) >>) }

\* Settings0/settings.xml: none; one that does not parse; one that names
\* the first grid; one that names a grid that is not there; one without
\* StartGrid
TreeSettings ==
    { Settings(FALSE, FALSE, <<>>),
      Settings(TRUE, FALSE, <<>>),
      Settings(TRUE, TRUE, << Child("StartGrid", PageName(1)) >>),
      Settings(TRUE, TRUE, << Child("StartGrid", NoPage) >>),
      Settings(TRUE, TRUE, << Child("Description", <<"a">>) >>) }

\* the gridset files: the directories below Grids, and the grid.xml of
\* those that have one
Gridsets ==
    { [hasGrids |-> TRUE, dirs |-> dirs, docs |-> docs, settings |-> st] :
        dirs \in SUBSET PageNames,
        docs \in UNION {[with -> TreeDocs] : with \in SUBSET PageNames},
        st \in TreeSettings }

InitTree ==
    /\ \/ /\ gridset \in Gridsets
          /\ DOMAIN gridset.docs \subseteq gridset.dirs
       \/ \E st \in TreeSettings :
             gridset = [hasGrids |-> FALSE, dirs |-> {}, docs |-> <<>>, settings |-> st]
    /\ tree = <<>>
    /\ saved = <<>>
    /\ tree2 = <<>>
    /\ texts = <<>>
    /\ texts_with_context = <<>>
    /\ treePc = "start"
    /\ LangAtRest /\ RunsAtRest /\ FilesAtRest /\ OpmlAtRest /\ CreateAtRest

\* tree = load_into_tree(file)
LoadIntoTree ==
    /\ treePc = "start"
    /\ \E listing \in Orders(gridset.dirs) :
          tree' = load_into_tree(gridset, listing)
    /\ treePc' = "loaded"
    /\ UNCHANGED <<gridset, saved, tree2, texts, texts_with_context>>
    /\ UNCHANGED <<langVars, runVars, fileVars, opmlVars, createVars>>

\* save_from_tree(tree, output): the file is written unless line 573 raises
SaveFromTree ==
    /\ treePc = "loaded"
    /\ IF save_raises(tree)
       THEN treePc' = "save_raised" /\ saved' = saved
       ELSE treePc' = "saved" /\ saved' = save_from_tree(tree)
    /\ UNCHANGED <<gridset, tree, tree2, texts, texts_with_context>>
    /\ UNCHANGED <<langVars, runVars, fileVars, opmlVars, createVars>>

\* tree2 = load_into_tree(output)
Reload ==
    /\ treePc = "saved"
    /\ \E listing \in Orders(saved.dirs) :
          tree2' = load_into_tree(saved, listing)
    /\ treePc' = "reloaded"
    /\ UNCHANGED <<gridset, tree, saved, texts, texts_with_context>>
    /\ UNCHANGED <<langVars, runVars, fileVars, opmlVars, createVars>>

\* texts = extract_texts(file, include_context=False)
ExtractTexts ==
    /\ treePc \in {"start", "texts"}
    /\ \E listing \in Orders(gridset.dirs) :
          texts' \in returned_texts(plain_texts(gridset, listing))
    /\ treePc' = "texts"
    /\ UNCHANGED <<gridset, tree, saved, tree2, texts_with_context>>
    /\ UNCHANGED <<langVars, runVars, fileVars, opmlVars, createVars>>

\* texts_with_context = extract_texts(file, include_context=True); line 452
\* keeps the tree in self.tree
ExtractTextsWithContext ==
    /\ treePc = "texts"
    /\ \E listing \in Orders(gridset.dirs) :
          /\ tree' = load_into_tree(gridset, listing)
          /\ texts_with_context' = contextual_texts(tree')
    /\ treePc' = "context"
    /\ UNCHANGED <<gridset, saved, tree2, texts>>
    /\ UNCHANGED <<langVars, runVars, fileVars, opmlVars, createVars>>

NextTree ==
    \/ LoadIntoTree
    \/ SaveFromTree
    \/ Reload
    \/ ExtractTexts
    \/ ExtractTextsWithContext

SpecTree == InitTree /\ [][NextTree]_vars

\* every grid directory has a grid.xml that parses and whose cells have
\* numeric positions, and the settings name one of the grids as StartGrid
WellFormed(gs) ==
    /\ gs.hasGrids
    /\ gs.dirs /= {}
    /\ DOMAIN gs.docs = gs.dirs
    /\ \A d \in gs.dirs : ~grid_raises(gs.docs[d])
    /\ start_grid(gs.settings) \in gs.dirs

\* the same page ids, and on each page the same number of buttons with the
\* same labels, types and targets
SameStructure(t1, t2) ==
    /\ page_ids(t1) = page_ids(t2)
    /\ \A id \in page_ids(t1) :
          LET b1 == page_of(t1, id).buttons
              b2 == page_of(t2, id).buttons
          IN /\ Len(b1) = Len(b2)
             /\ \A i \in 1..Len(b1) :
                   /\ b1[i].label = b2[i].label
                   /\ b1[i].type = b2[i].type
                   /\ b1[i].target_page_id = b2[i].target_page_id

\* C4: the tree loaded from a well-formed gridset and the tree loaded from
\* the file saved from it have the same page ids, the same number of
\* buttons on each page, and the same labels, types and targets.
C4_RoundTrip ==
    (treePc = "reloaded" /\ WellFormed(gridset)) => SameStructure(tree, tree2)

\* C5: after load_into_tree has returned, a root_id that is set is the id
\* of a page of the tree.
C5_RootIsAPage ==
    treePc = "loaded" => (tree.root_id = <<>> \/ tree.root_id \in page_ids(tree))

\* C6: after load_into_tree has returned, a directory whose grid.xml does
\* not parse or whose processing raises has no page in the tree, and every
\* other directory with a grid.xml has its whole page in the tree.
C6_FailedPageSkipped ==
    treePc = "loaded" =>
        /\ page_ids(tree) \subseteq DOMAIN gridset.docs
        /\ \A d \in DOMAIN gridset.docs :
              IF grid_raises(gridset.docs[d])
              THEN d \notin page_ids(tree)
              ELSE /\ d \in page_ids(tree)
                   /\ page_of(tree, d) =
                         page_of_grid(d, gridset.docs[d], Len(gridset.docs[d].cells))

\* a file with a grid.xml that parses and then raises on its second cell,
\* after a first cell that makes a button, and with another page that loads
C6_Witness ==
    /\ treePc = "loaded"
    /\ \E d \in DOMAIN gridset.docs :
          /\ gridset.docs[d].ok
          /\ grid_raises(gridset.docs[d])
          /\ cell_button(d, gridset.docs[d].cells[1]) /= <<>>
          /\ d \notin page_ids(tree)
          /\ \E e \in page_ids(tree) : e /= d /\ page_of(tree, e).buttons /= <<>>

NoDuplicates(seq) == \A i, j \in 1..Len(seq) : seq[i] = seq[j] => i = j

\* C8: the list extract_texts returns without context has no duplicates,
\* and two extractions from the same file return the same set of strings,
\* whatever the order in which the directories were listed.
C8_DedupOrderIndependent ==
    [][/\ treePc' = "texts" => NoDuplicates(texts')
       /\ (treePc = "texts" /\ treePc' = "texts") => Range(texts') = Range(texts)]_vars

\* an extraction from a file with two grids, in which a string occurs more
\* than once
C8_Witness ==
    /\ treePc = "texts"
    /\ Cardinality(DOMAIN gridset.docs) = 2
    /\ Len(texts) >= 2
    /\ \E listing \in Orders(gridset.dirs) :
          Len(plain_texts(gridset, listing)) > Len(texts)

\* C9: the extraction with context returns at least as many records as the
\* extraction without context returns strings.
C9_ContextAtLeastPlain ==
    treePc = "context" => Len(texts_with_context) >= Len(texts)

\* the buttons of the tree, page after page
all_buttons(t) == Concat([i \in 1..Len(t.pages) |-> t.pages[i].buttons])

\* C15 as claimed: no two buttons of a tree Gridset load_into_tree has
\* returned have the same id.
C15_ButtonIdsUnique ==
    treePc = "loaded" =>
        \A i, j \in 1..Len(all_buttons(tree)) :
            all_buttons(tree)[i].id = all_buttons(tree)[j].id => i = j

\* the buttons of the page whose id starts with <pageId>_word_
WordButtons(page) ==
    LET IsWord(b) == is_wordlist_button(page.id, b) IN SelectSeq(page.buttons, IsWord)

\* C26 as claimed: a loaded page has, for every word-list item of its
\* grid.xml, in order, a button at (0,0) with the id <pageId>_word_<text>;
\* save_from_tree writes the buttons with that id prefix as WordListItems
\* and every other button as a Cell, each button once.
C26_WordListByIdPrefix ==
    /\ treePc = "loaded" =>
          \A k \in 1..Len(tree.pages) :
              LET page == tree.pages[k]
                  items == gridset.docs[page.id].items
              IN /\ Len(WordButtons(page)) = Len(items)
                 /\ \A i \in 1..Len(items) :
                       /\ WordButtons(page)[i].position = <<0, 0>>
                       /\ WordButtons(page)[i].id
                             = page.id \o <<"_word_">> \o items[i].text
    /\ treePc = "saved" =>
          \A k \in 1..Len(tree.pages) :
              LET page == tree.pages[k]
                  doc == saved.docs[page.id]
              IN /\ Len(doc.items) = Len(WordButtons(page))
                 /\ Len(doc.cells) + Len(doc.items) = Len(page.buttons)
                 /\ \A i \in 1..Len(doc.items) :
                       doc.items[i].text = WordButtons(page)[i].label

\* C29 as claimed: save_from_tree does not raise on a tree load_into_tree
\* has returned, the empty tree included.
C29_SaveDoesNotRaise == treePc /= "save_raised"

---------------------------------------------------------------------------
(* OPMLProcessor.load_into_tree and save_from_tree.                        *)
(*                                                                         *)
(* An outline file is whether it parses, whether its root has a body, and  *)
(* the outline elements of the body; an outline element is whether it has  *)
(* a text attribute, the attribute's value and its child outlines.  A      *)
(* uuid4 is modelled by the place it is drawn at: two draws give two ids.  *)

Outline(hasText, text, children) ==
    [hasText |-> hasText, text |-> text, children |-> children]

OpmlFile(ok, hasBody, outlines) ==
    [ok |-> ok, hasBody |-> hasBody, outlines |-> outlines]

\* element.get("text", default)
get_text(el, default) == IF el.hasText THEN el.text ELSE default

\* str(uuid.uuid4()), drawn for the thing of this kind at this path
uuid4(kind, path) == <<"uuid", kind>> \o path

\* lines 110-155, the value process_outline returns: no button, a Navigate
\* button or a Speak button
outline_button(el, position, path) ==
    LET outline_text == get_text(el, <<>>) IN
    IF outline_text = <<>> THEN <<>>
    ELSE IF el.children /= <<>>
    THEN << Button(uuid4("button", path), outline_text, NAVIGATE, position,
                   outline_text, uuid4("page", path)) >>
    ELSE << Button(uuid4("button", path), outline_text, SPEAK, position,
                   outline_text, <<>>) >>

\* lines 128-133: the buttons of the page of an outline
outline_page_buttons(el, path) ==
    Concat([i \in 1..Len(el.children) |->
              outline_button(el.children[i], <<i - 1, 0>>, path \o str(i))])

\* lines 110-136: the pages process_outline adds to the tree, in the order
\* it adds them
RECURSIVE outline_pages(_, _, _)
outline_pages(el, parent_page_id, path) ==
    IF get_text(el, <<>>) = <<>> \/ el.children = <<>> THEN <<>>
    ELSE Concat([i \in 1..Len(el.children) |->
                   outline_pages(el.children[i], uuid4("page", path),
                                 path \o str(i))])
         \o << Page(uuid4("page", path), get_text(el, <<>>),
                    <<Len(el.children), 1>>, parent_page_id,
                    outline_page_buttons(el, path)) >>

\* the mutant of C24: the last page is not added
RECURSIVE add_pages_but_last(_, _)
add_pages_but_last(t, pages) ==
    IF Len(pages) <= 1 THEN t
    ELSE add_pages_but_last(add_page(t, Head(pages)), Tail(pages))

\* tree.add_page for each page in turn
RECURSIVE add_pages(_, _)
add_pages(t, pages) ==
    IF pages = <<>> THEN t ELSE add_pages(add_page(t, Head(pages)), Tail(pages))

\* OPMLProcessor.load_into_tree
opml_load_into_tree(file) ==
    IF ~file.ok \/ ~file.hasBody \/ file.outlines = <<>> THEN EmptyTree
    ELSE LET super_root_id == uuid4("super", <<>>)
             root_page_id == uuid4("root", <<>>)
             main_page_id == uuid4("page", <<>>)
             main_outline == file.outlines[1]
             main_text == get_text(main_outline, <<"Main Page">>)
             super_root_page ==
                 Page(super_root_id, <<"Super Root">>, <<1, 1>>, <<>>,
                      << Button(uuid4("button", <<"super">>), <<"Root">>, NAVIGATE,
                                <<0, 0>>, <<"Root">>, root_page_id) >>)
             root_page ==
                 Page(root_page_id, <<"Root">>, <<1, 1>>, super_root_id,
                      << Button(uuid4("button", <<"root">>), main_text, NAVIGATE,
                                <<0, 0>>, main_text, main_page_id) >>)
             main_page ==
                 Page(main_page_id, main_text, <<Len(main_outline.children), 1>>,
                      root_page_id, outline_page_buttons(main_outline, <<>>))
             category_pages ==
                 Concat([i \in 1..Len(main_outline.children) |->
                           outline_pages(main_outline.children[i], main_page_id,
                                         str(i))])
         IN [add_pages(EmptyTree,
                       category_pages \o <<main_page, root_page, super_root_page>>)
               EXCEPT !.root_id = super_root_id]

\* lines 202-216 and 221-233: the page the first button of the page leads
\* to, <<>> when one of the tests returns
anchor_target(t, page) ==
    IF page.buttons = <<>> THEN <<>>
    ELSE IF page.buttons[1].type /= NAVIGATE \/ page.buttons[1].target_page_id = <<>>
    THEN <<>>
    ELSE IF page.buttons[1].target_page_id \notin page_ids(t) THEN <<>>
    ELSE << page.buttons[1].target_page_id >>

\* lines 194-235: the id of the main page, <<>> when save_from_tree returns
\* before it has one
anchor_main_page_id(t) ==
    IF t.root_id = <<>> \/ t.root_id \notin page_ids(t) THEN <<>>
    ELSE LET root_target == anchor_target(t, page_of(t, t.root_id)) IN
         IF root_target = <<>> THEN <<>>
         ELSE anchor_target(t, page_of(t, root_target[1]))

\* the depth of recursion at which the interpreter raises RecursionError;
\* it is larger than the depth of every tree load_into_tree returns here
RecursionLimit == 5

\* lines 242-255: the walk from the page, entered at this depth, exceeds
\* the depth of recursion
RECURSIVE walk_overflows(_, _, _)
walk_overflows(t, page, depth) ==
    IF depth > RecursionLimit THEN TRUE
    ELSE \E i \in 1..Len(page.buttons) :
            /\ page.buttons[i].type = NAVIGATE
            /\ page.buttons[i].target_page_id \in page_ids(t)
            /\ walk_overflows(t, page_of(t, page.buttons[i].target_page_id),
                              depth + 1)

\* save_from_tree raises: the walk from the main page does not end
opml_save_raises(t) ==
    /\ anchor_main_page_id(t) /= <<>>
    /\ walk_overflows(t, page_of(t, anchor_main_page_id(t)[1]), 1)

\* lines 242-255: the outlines of the buttons of a page, when the walk
\* ends
RECURSIVE process_page_buttons(_, _)
process_page_buttons(t, page) ==
    [i \in 1..Len(page.buttons) |->
        Outline(TRUE, page.buttons[i].label,
                IF /\ page.buttons[i].type = NAVIGATE
                   /\ page.buttons[i].target_page_id \in page_ids(t)
                THEN process_page_buttons(t, page_of(t, page.buttons[i].target_page_id))
                ELSE <<>>)]

\* OPMLProcessor.save_from_tree: the files it writes, none or one
opml_save_from_tree(t) ==
    LET main == anchor_main_page_id(t) IN
    IF main = <<>> THEN <<>>
    ELSE << OpmlFile(TRUE, TRUE,
                     << Outline(TRUE, page_of(t, main[1]).name,
                                process_page_buttons(t, page_of(t, main[1]))) >>) >>

---------------------------------------------------------------------------
(* The specification of the tree operations of OPMLProcessor: an outline   *)
(* file is loaded into a tree, the tree may be edited by hand at its       *)
(* anchor pages, and the tree is saved.                                    *)

MaxChildren == 2

Leaf(text) == Outline(TRUE, text, <<>>)

\* an outline without a text attribute
Textless == Outline(FALSE, <<>>, <<>>)

\* the outlines below the first top-level outline: leaves, outlines with
\* one or two children, and one without text that has a child
CategoryOutlines ==
    { Leaf(<<"a">>), Leaf(<<"b">>), Textless,
      Outline(FALSE, <<>>, << Leaf(<<"a">>) >>) }
    \cup { Outline(TRUE, <<"c">>, kids) :
             kids \in SeqsUpTo({Leaf(<<"a">>), Textless}, 2) \ {<<>>} }

\* the top-level outlines: with a text, with an empty text, without one
MainOutlines ==
    { Outline(main[1], main[2], kids) :
        main \in { <<TRUE, <<"Food">> >>, <<TRUE, <<>> >>, <<FALSE, <<>> >> },
        kids \in SeqsUpTo(CategoryOutlines, MaxChildren) }

\* the outline files: one that does not parse, one without body, one with
\* an empty body, those with one top-level outline, and some with two
OpmlFiles ==
    { OpmlFile(FALSE, FALSE, <<>>), OpmlFile(TRUE, FALSE, <<>>),
      OpmlFile(TRUE, TRUE, <<>>) }
    \cup { OpmlFile(TRUE, TRUE, <<main>>) : main \in MainOutlines }
    \cup { OpmlFile(TRUE, TRUE, <<main, Leaf(<<"b">>)>>) :
             main \in { Leaf(<<"Food">>),
                        Outline(TRUE, <<"Food">>, << Leaf(<<"a">>) >>) } }

\* page.buttons = buttons
with_buttons(t, id, buttons) ==
    add_page(t, [page_of(t, id) EXCEPT !.buttons = buttons])

\* the hand edits of an anchor page: its buttons removed; its first button
\* made a Speak button; the target of its first button unset; the target
\* of its first button a page that is not in the tree
AnchorEdits(t, id) ==
    LET buttons == page_of(t, id).buttons IN
    IF buttons = <<>> THEN {}
    ELSE { with_buttons(t, id, <<>>),
           with_buttons(t, id, [buttons EXCEPT ![1].type = SPEAK]),
           with_buttons(t, id, [buttons EXCEPT ![1].target_page_id = <<>>]),
           with_buttons(t, id, [buttons EXCEPT
                                  ![1].target_page_id = uuid4("page", <<"none">>)]) }

\* a Navigate button added to the main page: to the main page itself, to
\* the Root page above it, or to a page another button of the main page
\* leads to
NavigateEdits(t) ==
    LET main == uuid4("page", <<>>)
        buttons == page_of(t, main).buttons
        targets == {main, uuid4("root", <<>>)}
                   \cup {buttons[i].target_page_id :
                           i \in {k \in 1..Len(buttons) : buttons[k].type = NAVIGATE}}
    IN { with_buttons(t, main,
                      Append(buttons,
                             Button(uuid4("button", <<"added">>), <<"more">>, NAVIGATE,
                                    <<Len(buttons), 0>>, <<"more">>, target))) :
           target \in targets }

\* the hand edits of a loaded tree: root_id unset or dangling, the edits of
\* its Super Root and Root pages, and the Navigate buttons added to its
\* main page
TreeEdits(t) ==
    { [t EXCEPT !.root_id = <<>>],
      [t EXCEPT !.root_id = uuid4("super", <<"none">>)] }
    \cup AnchorEdits(t, uuid4("super", <<>>))
    \cup AnchorEdits(t, uuid4("root", <<>>))
    \cup NavigateEdits(t)

InitOpml ==
    /\ opml \in OpmlFiles
    /\ otree = <<>>
    /\ osaved = <<>>
    /\ oresult = "none"
    /\ opmlPc = "start"
    /\ odir = <<>>
    /\ LangAtRest /\ RunsAtRest /\ FilesAtRest /\ TreeAtRest /\ CreateAtRest

\* otree = load_into_tree(file): the exceptions are caught at line 170
OpmlLoadIntoTree ==
    /\ opmlPc = "start"
    /\ otree' = opml_load_into_tree(opml)
    /\ oresult' = "returned"
    /\ opmlPc' = "loaded"
    /\ UNCHANGED <<opml, osaved, odir>>
    /\ UNCHANGED <<langVars, runVars, fileVars, treeVars, createVars>>

\* the caller edits the tree
OpmlEditTree ==
    /\ opmlPc = "loaded"
    /\ otree.pages /= <<>>
    /\ otree' \in TreeEdits(otree)
    /\ opmlPc' = "edited"
    /\ UNCHANGED <<opml, osaved, oresult, odir>>
    /\ UNCHANGED <<langVars, runVars, fileVars, treeVars, createVars>>

\* save_from_tree(otree, output): every path of lines 194-263 returns
\* None; a walk that does not end raises before the file is written
OpmlSaveFromTree ==
    /\ opmlPc \in {"loaded", "edited"}
    /\ IF opml_save_raises(otree)
       THEN osaved' = <<>> /\ oresult' = "raised"
       ELSE osaved' = opml_save_from_tree(otree) /\ oresult' = "returned"
    /\ opmlPc' = IF opmlPc = "loaded" THEN "saved" ELSE "saved_edited"
    /\ UNCHANGED <<opml, otree, odir>>
    /\ UNCHANGED <<langVars, runVars, fileVars, treeVars, createVars>>

NextOpml ==
    \/ OpmlLoadIntoTree
    \/ OpmlEditTree
    \/ OpmlSaveFromTree

SpecOpml == InitOpml /\ [][NextOpml]_vars

\* the Super Root -> Root -> Main chain of the tree is absent or malformed
AnchorMalformed(t) ==
    \/ t.root_id = <<>>
    \/ t.root_id \notin page_ids(t)
    \/ \E id \in {t.root_id} \cup
                 {page_of(t, t.root_id).buttons[1].target_page_id :
                    k \in {1} \cap DOMAIN page_of(t, t.root_id).buttons} :
          \/ id \notin page_ids(t)
          \/ /\ id \in page_ids(t)
             /\ \/ page_of(t, id).buttons = <<>>
                \/ page_of(t, id).buttons[1].type /= NAVIGATE
                \/ page_of(t, id).buttons[1].target_page_id \notin page_ids(t)

\* C11 as claimed: save_from_tree on a tree whose anchor chain is absent or
\* malformed fails (it does not return normally) and writes no file.
C11_MalformedAnchorFails ==
    (opmlPc \in {"saved", "saved_edited"} /\ AnchorMalformed(otree))
        => (oresult = "raised" /\ osaved = <<>>)

\* the two outlines have the same text, and their children, in order, have
\* the same nesting of texts (an absent text attribute counts as an empty
\* one)
RECURSIVE SameNesting(_, _)
SameNesting(a, b) ==
    /\ get_text(a, <<>>) = get_text(b, <<>>)
    /\ Len(a.children) = Len(b.children)
    /\ \A i \in 1..Len(a.children) : SameNesting(a.children[i], b.children[i])

\* C12 as claimed: the file saved from the tree loaded from an outline file
\* with one top-level outline holds one top-level outline with the same
\* nesting of texts as the input.
C12_OutlineRoundTrip ==
    (opmlPc = "saved" /\ opml.ok /\ opml.hasBody /\ Len(opml.outlines) = 1)
        => /\ osaved /= <<>>
           /\ Len(osaved[1].outlines) = 1
           /\ SameNesting(opml.outlines[1], osaved[1].outlines[1])

\* C16 as claimed: every page of a tree load_into_tree has returned has at
\* least one row and one column (here for the OPML adapter).
C16_GridSizeAtLeastOne ==
    opmlPc = "loaded" =>
        \A i \in 1..Len(otree.pages) :
            otree.pages[i].grid_size[1] >= 1 /\ otree.pages[i].grid_size[2] >= 1

\* the outline file has a top-level outline
HasOutline(file) == file.ok /\ file.hasBody /\ file.outlines /= <<>>

\* the page has exactly one button, a Navigate button to a page of the tree
OneNavigateButton(t, page) ==
    /\ Len(page.buttons) = 1
    /\ page.buttons[1].type = NAVIGATE
    /\ page.buttons[1].target_page_id \in page_ids(t)

\* C24: the tree loaded from an outline file with a top-level outline has
\* a root_id that names a page Super Root, whose one button navigates to a
\* page Root, whose one button navigates to a page named after the text of
\* the first top-level outline; the three pages are pages of the tree.
C24_AnchorChain ==
    (opmlPc = "loaded" /\ HasOutline(opml)) =>
        /\ otree.root_id \in page_ids(otree)
        /\ LET super == page_of(otree, otree.root_id) IN
             /\ super.name = <<"Super Root">>
             /\ OneNavigateButton(otree, super)
             /\ LET root == page_of(otree, super.buttons[1].target_page_id) IN
                  /\ root.name = <<"Root">>
                  /\ root.id /= super.id
                  /\ OneNavigateButton(otree, root)
                  /\ LET main == page_of(otree, root.buttons[1].target_page_id) IN
                       /\ main.id \notin {super.id, root.id}
                       /\ opml.outlines[1].hasText => main.name = opml.outlines[1].text

\* a file with the top-level outline Food and two outlines below it was
\* loaded
C24_Witness ==
    /\ opmlPc = "loaded"
    /\ HasOutline(opml)
    /\ opml.outlines[1].text = <<"Food">>
    /\ Len(opml.outlines[1].children) = 2
    /\ Len(otree.pages) >= 4
    /\ page_of(otree, otree.root_id).name = <<"Super Root">>

\* the buttons of the page are, in order, those of the outlines below the
\* outline: a Navigate button to a page of the tree whose parent is the
\* page for an outline with children, a Speak button without target for
\* one without; and so on below
RECURSIVE OutlineButtons(_, _, _)
OutlineButtons(t, el, page) ==
    /\ Len(page.buttons) = Len(el.children)
    /\ \A i \in 1..Len(el.children) :
          LET child == el.children[i]
              button == page.buttons[i]
          IN /\ button.label = get_text(child, <<>>)
             /\ IF child.children /= <<>>
                THEN /\ button.type = NAVIGATE
                     /\ button.target_page_id \in page_ids(t)
                     /\ page_of(t, button.target_page_id).parent_id = page.id
                     /\ OutlineButtons(t, child, page_of(t, button.target_page_id))
                ELSE /\ button.type = SPEAK
                     /\ button.target_page_id = <<>>

\* C25 as claimed: in the tree loaded from an outline file every outline
\* below the first top-level outline has exactly one button on the page of
\* its parent: a Navigate button to a newly added page, whose parent is
\* that page, when it has outlines below it, and a Speak button without
\* target when it has none.
C25_OneButtonPerOutline ==
    (opmlPc = "loaded" /\ HasOutline(opml)) =>
        OutlineButtons(otree, opml.outlines[1],
                       page_of(otree, uuid4("page", <<>>)))

\* C30 as claimed: save_from_tree on a tree with a valid anchor chain ends
\* normally and writes the file, also when Navigate buttons form a cycle
\* or two of them lead to the same page.
C30_SaveTerminates ==
    (opmlPc \in {"saved", "saved_edited"} /\ ~AnchorMalformed(otree))
        => (oresult = "returned" /\ osaved /= <<>>)

---------------------------------------------------------------------------
(* OPMLProcessor.process_files and process_texts.  The directory is its    *)
(* path and its files in the order the walk yields them, each a file name  *)
(* and, for an outline file, what parsing it gives.  The translations are  *)
(* None or a dict that is not empty.                                       *)

\* str.lower on the extensions of the files
lower(token) == IF token = "OPML" THEN "opml" ELSE token

\* can_process: file_path.lower().endswith(".opml")
can_process(name) ==
    /\ Len(name) >= 2
    /\ name[Len(name) - 1] = "."
    /\ lower(name[Len(name)]) = "opml"

\* lines 390-398: the outline after _translate_texts_in_element
RECURSIVE translated_outline(_, _)
translated_outline(el, d) ==
    LET text == get_text(el, <<>>)
        hit == text /= <<>> /\ strip(text) /= <<>> /\ strip(text) \in DOMAIN d
    IN [hasText |-> el.hasText \/ hit,
        text |-> IF hit THEN d[strip(text)] ELSE el.text,
        children |-> [i \in 1..Len(el.children) |->
                        translated_outline(el.children[i], d)]]

\* lines 351-373: the file process_texts writes, none or one
process_texts(doc, d, output_path) ==
    IF ~doc.ok \/ ~doc.hasBody THEN <<>>
    ELSE << [path |-> output_path,
             content |-> [doc EXCEPT !.outlines =
                            [i \in 1..Len(doc.outlines) |->
                               translated_outline(doc.outlines[i], d)]]] >>

\* lines 419-428: the output path for a file of the directory
opml_output_path(directory, filename, d) ==
    LET target_lang == IF TargetLangKey \in DOMAIN d THEN d[TargetLangKey] ELSE <<>>
        translated_filename ==
            IF target_lang /= <<>>
            THEN splitext(filename)[1] \o <<"_">> \o target_lang \o splitext(filename)[2]
            ELSE <<"translated_">> \o filename
    IN directory \o <<"/">> \o translated_filename

\* lines 416-434 in apply mode: the file written for the first file of the
\* walk, from i on, that process_texts returns a path for; none when there
\* is no such file
RECURSIVE opml_process_files(_, _, _)
opml_process_files(d, dict, i) ==
    IF i > Len(d.files) THEN <<>>
    ELSE LET result ==
                 IF can_process(d.files[i].name)
                 THEN process_texts(d.files[i].doc, dict,
                                    opml_output_path(d.path, d.files[i].name, dict))
                 ELSE <<>>
         IN IF result /= <<>> THEN result ELSE opml_process_files(d, dict, i + 1)

MaxOpmlFiles == 2

OpmlProcessFiles(tr) ==
    /\ pfCalls < MaxCalls
    /\ pfCalls' = pfCalls + 1
    /\ translations' = tr
    /\ LET written == IF tr.none THEN <<>> ELSE opml_process_files(odir, tr.dict, 1) IN
         IF written /= <<>>
         THEN /\ containers' = put(containers, written[1].path, written[1].content)
              /\ ret' = written[1].path
         ELSE /\ containers' = containers
              /\ ret' = <<>>
    /\ UNCHANGED <<dir, rewritten, collected_texts>>
    /\ UNCHANGED <<langVars, runVars, treeVars, opmlVars, createVars>>

OpmlDirFile(name, doc) == [name |-> name, doc |-> doc]

\* the files of the directory: one that is not an outline file; an outline
\* file; one with an upper-case extension, two top-level outlines and a
\* padded text; one that does not parse; one without body
OpmlDirFiles ==
    { OpmlDirFile(<<"n", ".", "txt">>, OpmlFile(FALSE, FALSE, <<>>)),
      OpmlDirFile(<<"a", ".", "opml">>,
                  OpmlFile(TRUE, TRUE,
                           << Outline(TRUE, <<"Food">>, << Leaf(<<"a">>) >>) >>)),
      OpmlDirFile(<<"b", ".", "OPML">>,
                  OpmlFile(TRUE, TRUE, << Leaf(<<SP, "a">>), Textless >>)),
      OpmlDirFile(<<"c", ".", "opml">>, OpmlFile(FALSE, FALSE, <<>>)),
      OpmlDirFile(<<"d", ".", "x", ".", "opml">>, OpmlFile(TRUE, FALSE, <<>>)) }

\* the dicts of translations: a match, a match and a target language, a
\* target language only, no match, values that are keys
OpmlTranslationArgs ==
    { NoTranslations,
      Translations((<<"a">> :> <<"Food">>) @@ (<<"Food">> :> <<"a">>)),
      Translations(<<"a">> :> <<"x">>),
      Translations((<<"a">> :> <<"x">>) @@ (TargetLangKey :> Short("fr"))),
      Translations(TargetLangKey :> Short("fr")),
      Translations(<<"q">> :> <<"x">>) }

InitOpmlFiles ==
    /\ \E files \in SeqsUpTo(OpmlDirFiles, MaxOpmlFiles) :
          odir = [path |-> <<"/", "tmp">>, files |-> files]
    /\ opml = <<>> /\ otree = <<>> /\ osaved = <<>>
    /\ oresult = "rest" /\ opmlPc = "rest"
    /\ FilesAtRest
    /\ LangAtRest /\ RunsAtRest /\ TreeAtRest /\ CreateAtRest

NextOpmlFiles == \E tr \in OpmlTranslationArgs : OpmlProcessFiles(tr)

SpecOpmlFiles == InitOpmlFiles /\ [][NextOpmlFiles]_vars

\* the texts of an outline and of the outlines below it, as they are looked
\* up
RECURSIVE OutlineTexts(_)
OutlineTexts(el) ==
    {strip(get_text(el, <<>>))} \cup
    UNION {OutlineTexts(el.children[i]) : i \in 1..Len(el.children)}

\* the outline texts of the outline files of the directory
OpmlDirTexts(d) ==
    UNION {OutlineTexts(d.files[i].doc.outlines[j]) :
             <<i, j>> \in {q \in (1..Len(d.files)) \X (1..2) :
                            /\ can_process(d.files[q[1]].name)
                            /\ q[2] <= Len(d.files[q[1]].doc.outlines)}}

\* C17 as claimed: an apply-mode call of OPMLProcessor.process_files on a
\* directory none of whose outline texts is a key of the map writes no file
\* and returns nothing.
C17_NoMatchNoFile ==
    [][(/\ pfCalls' = pfCalls + 1
        /\ ~translations'.none
        /\ OpmlDirTexts(odir) \cap DOMAIN translations'.dict = {})
          => (ret' = <<>> /\ containers' = containers)]_vars

---------------------------------------------------------------------------
(* The apply mode of both adapters: process_files of the gridset adapter  *)
(* on a gridset directory, or process_files of the outline adapter on a   *)
(* directory of outline files.                                            *)

InitApply == InitFiles \/ InitOpmlFiles

GridsetApply == DOMAIN dir /= {} /\ NextFiles

OpmlApply == DOMAIN odir /= {} /\ NextOpmlFiles

NextApply == GridsetApply \/ OpmlApply

SpecApply == InitApply /\ [][NextApply]_vars

\* the map's value for a text, when the text is looked up and is a key
Once(text, d) ==
    IF text /= <<>> /\ strip(text) /= <<>> /\ strip(text) \in DOMAIN d
    THEN d[strip(text)]
    ELSE text

\* a text field after the call: rebuilt from the map's value for the text
\* extracted from it before the call, or as it was
FieldOnce(before, after, d) ==
    LET key == extract_text_and_metadata_from_element(before)[1] IN
    IF strip(key) /= <<>> /\ key \in DOMAIN d
    THEN extract_text_and_metadata_from_element(after)[1] = JoinedWords(d[key], 1)
    ELSE after = before

\* a grid.xml after the call
GridOnce(before, after, d) ==
    /\ Len(after.cells) = Len(before.cells)
    /\ \A i \in 1..Len(before.cells) :
          after.cells[i].caption = Once(before.cells[i].caption, d)
    /\ Len(after.params) = Len(before.params)
    /\ \A i \in 1..Len(before.params) :
          FieldOnce(before.params[i], after.params[i], d)
    /\ Len(after.items) = Len(before.items)
    /\ \A i \in 1..Len(before.items) :
          /\ Len(after.items[i].runs) = Len(before.items[i].runs)
          /\ \A j \in 1..Len(before.items[i].runs) :
                after.items[i].runs[j] = Once(before.items[i].runs[j], d)

\* an outline and the outlines below it after the call
RECURSIVE OutlineOnce(_, _, _)
OutlineOnce(before, after, d) ==
    /\ after.text = Once(before.text, d)
    /\ Len(after.children) = Len(before.children)
    /\ \A i \in 1..Len(before.children) :
          OutlineOnce(before.children[i], after.children[i], d)

\* C28: after an apply-mode call every caption, word-list run and text
\* field of the gridset directory, and every outline text of the outline
\* file written, holds the map's value for the text it had before the call
\* when that text is a key, and the text it had otherwise; the value is not
\* looked up again.
C28_NoChainedTranslation ==
    [][ApplyCall =>
          /\ DOMAIN dir /= {} =>
                \A g \in 1..Len(dir.grids) :
                    GridOnce(dir.grids[g], dir'.grids[g], translations'.dict)
          /\ (DOMAIN odir /= {} /\ ret' /= <<>>) =>
                \E f \in 1..Len(odir.files) :
                    LET before == odir.files[f].doc.outlines
                        after == containers'[ret'].outlines
                    IN /\ Len(after) = Len(before)
                       /\ \A i \in 1..Len(before) :
                             OutlineOnce(before[i], after[i], translations'.dict)]_vars

\* a map whose values are keys was applied to the gridset directory: the
\* caption a of the grid Home is b
C28_Witness ==
    /\ pfCalls > 0 /\ ~translations.none
    /\ DOMAIN dir /= {}
    /\ <<"a">> \in DOMAIN translations.dict
    /\ translations.dict[<<"a">>] = <<"b">>
    /\ <<"b">> \in DOMAIN translations.dict
    /\ \E g \in 1..Len(dir.grids) :
          /\ g \in rewritten
          /\ dir.grids[g].name = <<"Home">>
          /\ dir.grids[g].cells[1].caption = <<"b">>

---------------------------------------------------------------------------
(* GridsetProcessor.create_translated_file.  The gridset file is its path, *)
(* character by character up to the extension, and what its archive holds: *)
(* the grid directories with a grid.xml in the order os.listdir gives      *)
(* them.                                                                   *)

\* lines 705-720: a name, a caption or a word-list text of the grid.xml is
\* a key of the dict
create_hit(doc, d) ==
    \/ doc.name /= <<>> /\ doc.name \in DOMAIN d
    \/ \E i \in 1..Len(doc.cells) :
          doc.cells[i].caption /= <<>> /\ strip(doc.cells[i].caption) \in DOMAIN d
    \/ \E i \in 1..Len(doc.items) :
          doc.items[i].text /= <<>> /\ strip(doc.items[i].text) \in DOMAIN d

\* lines 712-719: the text after the replacement
create_translated(text, d) ==
    IF text /= <<>> /\ strip(text) \in DOMAIN d THEN d[strip(text)] ELSE text

\* lines 699-732: the grid.xml in the temporary directory after the loop
create_translated_grid(doc, d) ==
    IF ~doc.ok \/ ~create_hit(doc, d) THEN doc
    ELSE [doc EXCEPT
            !.name = IF @ /= <<>> /\ @ \in DOMAIN d THEN d[@] ELSE @,
            !.cells = [i \in 1..Len(doc.cells) |->
                         [doc.cells[i] EXCEPT !.caption = create_translated(@, d)]],
            !.items = [i \in 1..Len(doc.items) |->
                         [doc.items[i] EXCEPT !.text = create_translated(@, d)]]]

\* the value of modified at line 734
create_modified(f, d) ==
    \E g \in 1..Len(f.grids) : f.grids[g].ok /\ create_hit(f.grids[g], d)

\* lines 742-746: the base name, without what follows its last underscore
\* when that is at most 5 characters long
create_base_name(file_path) ==
    LET base_name == splitext(file_path)[1]
        us == LastIndexOf(base_name, "_")
    IN IF us /= 0 /\ Len(base_name) - us <= 5
       THEN SubSeq(base_name, 1, us - 1)
       ELSE base_name

\* line 749
create_translated_path(file_path, target_lang) ==
    create_base_name(file_path) \o <<"_">> \o target_lang \o <<".", "gridset">>

\* translations.get("target_lang"), <<>> for None
create_target_lang(d) == IF TargetLangKey \in DOMAIN d THEN d[TargetLangKey] ELSE <<>>

CreateTranslatedFile(tr) ==
    /\ pfCalls < MaxCalls
    /\ pfCalls' = pfCalls + 1
    /\ translations' = tr
    /\ IF ~dir.hasGrids
       THEN \* os.listdir(grids_dir) raises at line 694
            /\ ctfResult' = "raised"
            /\ ret' = <<>>
            /\ rewritten' = {}
            /\ containers' = containers
       ELSE /\ ctfResult' = "returned"
            /\ rewritten' = {g \in 1..Len(dir.grids) :
                               dir.grids[g].ok /\ create_hit(dir.grids[g], tr.dict)}
            /\ IF create_modified(dir, tr.dict) /\ create_target_lang(tr.dict) /= <<>>
               THEN /\ ret' = create_translated_path(dir.path,
                                                     create_target_lang(tr.dict))
                    /\ containers' =
                          put(containers, ret',
                              [settings |-> dir.settings,
                               grids |-> [g \in 1..Len(dir.grids) |->
                                            create_translated_grid(dir.grids[g], tr.dict)],
                               others |-> dir.others])
               ELSE /\ ret' = <<>>
                    /\ containers' = containers
    /\ UNCHANGED <<dir, collected_texts>>
    /\ UNCHANGED <<langVars, runVars, treeVars, opmlVars>>

\* the gridset files, each as its stem, its extension and whether the stem
\* ends with a language suffix: plain; an underscore in the file name; an
\* underscore in a directory name; a language suffix; a long last part
CreateParts ==
    { << <<"/", "t", "/", "s", "e", "t">>, <<".", "gridset">>, FALSE >>,
      << <<"/", "t", "/", "m", "y", "_", "f", "i", "l", "e">>, <<".", "gridset">>, FALSE >>,
      << <<"/", "a", "_", "b", "/", "s", "e", "t">>, <<".", "gridset">>, FALSE >>,
      << <<"/", "t", "/", "s", "e", "t", "_", "e", "n">>, <<".", "gridset">>, TRUE >>,
      << <<"/", "t", "/", "m", "y", "_", "g", "r", "i", "d", "s", "1">>,
         <<".", "gridset">>, FALSE >> }

\* the grid.xml files of the archive
CreateDocs ==
    { GridDoc(FALSE, <<>>, 0, 0, <<>>, <<>>, <<>>),
      GridDoc(TRUE, <<"a">>, 1, 1,
              << Cell(<<"0">>, <<"0">>, TRUE, <<SP, "a">>, <<>>) >>,
              <<>>,
              << Item(<<"b">>, <<>>) >>),
      GridDoc(TRUE, <<>>, 1, 1,
              << Cell(<<"0">>, <<"0">>, TRUE, <<"q">>, <<>>) >>,
              <<>>, <<>>) }

\* the dicts of translations: without target_lang, with one, with one and
\* no match, with an empty one
CreateTranslationArgs ==
    { Translations(<<"a">> :> <<"x">>),
      Translations((<<"a">> :> <<"x">>) @@ (TargetLangKey :> Short("fr"))),
      Translations(TargetLangKey :> Short("fr")),
      Translations((<<"b">> :> <<"y">>) @@ (TargetLangKey :> <<>>)) }

InitCreate ==
    /\ \E part \in CreateParts, gs \in SeqsUpTo(CreateDocs, MaxGridFiles),
          hasGrids \in BOOLEAN :
         /\ ~hasGrids => gs = <<>>
         /\ dir = [path |-> part[1] \o part[2], hasGrids |-> hasGrids,
                   settings |-> Settings(TRUE, TRUE, <<>>),
                   grids |-> gs, others |-> {"FileMap.xml"}]
    /\ translations = NoTranslations
    /\ ret = <<>>
    /\ rewritten = {}
    /\ collected_texts = <<>>
    /\ containers = <<>>
    /\ pfCalls = 0
    /\ ctfResult = "none"
    /\ LangAtRest /\ RunsAtRest /\ TreeAtRest /\ OpmlAtRest

NextCreate == \E tr \in CreateTranslationArgs : CreateTranslatedFile(tr)

SpecCreate == InitCreate /\ [][NextCreate]_vars

\* a call of create_translated_file
CreateCall == pfCalls' = pfCalls + 1

\* C18 as claimed: a call with a map without target_lang writes no
\* container and returns None; it does not raise.
C18_NoTargetLangReturnsNone ==
    [][(CreateCall /\ TargetLangKey \notin DOMAIN translations'.dict)
          => (ctfResult' = "returned" /\ ret' = <<>> /\ containers' = containers)]_vars

\* C19 as claimed: a call that replaced a text, with a target_lang, on a
\* file whose stem has no language suffix returns
\* <stem>_<target_lang>.gridset.
C19_StemKeptWhole ==
    [][(/\ CreateCall
        /\ create_target_lang(translations'.dict) /= <<>>
        /\ create_modified(dir, translations'.dict))
          => \A part \in CreateParts :
                (dir.path = part[1] \o part[2] /\ ~part[3]) =>
                   ret' = part[1] \o <<"_">> \o translations'.dict[TargetLangKey]
                              \o <<".", "gridset">>]_vars

---------------------------------------------------------------------------
(* The specification of _map_language_code *)

InitLang ==
    /\ lang_code \in LangCodes
    /\ grid3_lang = NoCode
    /\ langDone = FALSE
    /\ RunsAtRest /\ FilesAtRest /\ TreeAtRest /\ OpmlAtRest /\ CreateAtRest

MapLanguageCode ==
    /\ ~langDone
    /\ grid3_lang' = map_language_code(lang_code)
    /\ langDone' = TRUE
    /\ UNCHANGED lang_code
    /\ UNCHANGED <<runVars, fileVars, treeVars, opmlVars, createVars>>

NextLang == MapLanguageCode

SpecLang == InitLang /\ [][NextLang]_vars

\* "ll-RR": a language, a hyphen, a region
RegionQualified(c) == Len(c) = 3 /\ c[2] = "-"

\* C10 as claimed: a key of the table maps to its one region-qualified
\* value, and every code that is not a key is returned unchanged.
C10_AsClaimed ==
    langDone =>
        /\ lang_code \in language_map_keys =>
              /\ RegionQualified(grid3_lang)
              /\ \A e \in language_map : e[1] = lang_code => e[2] = grid3_lang
        /\ lang_code \notin language_map_keys => grid3_lang = lang_code

\* C10 amended: a key of the table maps to its one region-qualified value;
\* the right-to-left codes fa, ur, yi, dv, ha, ps, which are not keys, map
\* to ar-SA; every other code that is not a key is returned unchanged.
C10_MapLanguageCode ==
    langDone =>
        /\ lang_code \in language_map_keys =>
              /\ RegionQualified(grid3_lang)
              /\ \A e \in language_map : e[1] = lang_code => e[2] = grid3_lang
        /\ lang_code \in rtl_languages \ language_map_keys =>
              grid3_lang = Region("ar", "SA")
        /\ lang_code \notin language_map_keys \cup rtl_languages =>
              grid3_lang = lang_code

\* C10 witness: a right-to-left code outside the table has been mapped
C10_Witness == langDone /\ lang_code = Short("fa") /\ grid3_lang = Region("ar", "SA")

===========================================================================
